---- MODULE Spec2Model ----
(***************************************************************************)
(* Model of src/arss.py: the torrent reconciler (Arr / PlaceHolderArr      *)
(* process_torrents and the flush steps of process) and the missing-item   *)
(* search scheduler (run_search_loop, db_update, maybe_do_search).         *)
(*                                                                         *)
(* Every worker runs in an OS process of its own (spawn_child_processes),  *)
(* so one behaviour of Spec is one torrent worker, and one behaviour of    *)
(* SearchSpec is one search worker.                                        *)
(***************************************************************************)
EXTENDS Integers, Sequences, FiniteSets, TLC

VARIABLES
    kind,                 \* the reconciler of this worker: "sonarr", "radarr" (Arr), "failed", "recheck" (PlaceHolderArr)
    should_delay_torrent_scan,  \* qbit_manager.should_delay_torrent_scan
    delay,                \* the DelayLoopException run_torrent_loop has caught and is sleeping for
    config,               \* the CONFIG values read by __init__ that the model varies
    pc,                   \* position of the torrent worker inside run_torrent_loop
    cache,                \* Arr.cache: downloadId -> queue id
    requeue_cache,        \* Arr.requeue_cache: queue id -> object id(s)
    pause, resume, recheck, delete, skip_blacklist,
    change_priority,      \* hash -> set of file ids
    import_torrents,      \* list of [hash, content_path]
    sent_to_scan, sent_to_scan_hashes,
    needs_cleanup,
    timed_ignore_cache, timed_skip,
    name_cache,           \* qbit_manager.name_cache (its keys)
    qbit_cache,           \* qbit_manager.cache: hash -> category
    fired,                \* history: hash -> classifier branches run for it in this tick
    effects,              \* history: calls issued to the client and the manager in this tick
    failures,             \* history: number of calls that raised so far
    scan_posts,           \* history: hash -> scan commands posted << since sent_to_scan_hashes was last reset, in all >>
    failed_T,             \* history: the hashes the _process_failed of this tick was run with
    failed_skip,          \* history: self.skip_blacklist when it was run
    torrents,             \* history: hash, state_enum, added_on, files of the torrents of this tick's snapshot
    probe                 \* ClassifierSpec only: the torrent handed to the classifier

VARIABLES
    search_current_year,  \* the year window of the search loop
    spc,                  \* position of the search loop ("off": not this process)
    arr_file,             \* manager catalog: entry id -> file id (0: missing)
    entry_year,           \* manager catalog: entry id -> year of the entry
    model_file,           \* local Files table: entry id -> file id
    model_queue,          \* local pending-search table: entry id -> completed of its rows, oldest first
    searched,             \* local Files table: entry id -> its searched column
    selected,             \* history: entry ids db_update has selected so far
    commands,             \* manager Commands table: active search commands
    candidates,           \* the rows db_get_files yielded for this pass
    idx,                  \* the candidate the loop is at
    posts,                \* history: search commands posted in this pass
    active_at_start,      \* history: active search commands when the pass began
    queued_at_start       \* history: candidates with an incomplete pending row then

VARIABLES
    sections,             \* CONFIG.sections() matching (rad|son)arr.*, in order
    bpc,                  \* position of build_arr_instances ("off": not this run)
    bk,                   \* the section the loop of build_arr_instances is at
    groups,               \* ArrManager.groups
    uris,                 \* ArrManager.uris
    managed_objects,      \* ArrManager.managed_objects: category -> name of the reconciler
    constructed,          \* history: name and category of the reconcilers constructed, in order
    dropped               \* history: section name -> the exception its constructor raised

build_vars == << sections, bpc, bk, groups, uris, managed_objects, constructed, dropped >>

search_vars ==
    << search_current_year, spc, arr_file, entry_year, model_file, model_queue,
       searched, selected, commands, candidates, idx, posts, active_at_start, queued_at_start >>

torrent_vars ==
    << kind, should_delay_torrent_scan, delay, config, pc, cache, requeue_cache, pause, resume, recheck, delete, skip_blacklist,
       change_priority, import_torrents, sent_to_scan, sent_to_scan_hashes,
       needs_cleanup, timed_ignore_cache, timed_skip, name_cache, qbit_cache,
       fired, effects, failures, scan_posts, failed_T, failed_skip, torrents, probe >>

-----------------------------------------------------------------------------
(* Configuration and inputs                                                *)

FAILED_CATEGORY == "failed"
RECHECK_CATEGORY == "recheck"

\* the sleep after a failed internet probe, in seconds
NO_INTERNET_SLEEP_TIMER == 15
NoDelay == [length |-> 0, type |-> "none"]
OWN_CATEGORY == "tv"

\* CONFIG defaults of Arr.__init__
ignore_torrents_younger_than == 600
maximum_eta == 86400
\* MaximumDeletablePercentage 0.95; progress and availability are in percent here
maximum_deletable_percentage == 95

\* time.time() of the tick
time_now == 1000000

\* the hashes the download client reports (lower case) and their str.upper()
Hashes == {"h1"}
upper(h) == CASE h = "h1" -> "H1" [] OTHER -> h
AllHashes == Hashes \cup {upper(h) : h \in Hashes}

\* validate_and_return_torrent_file(torrent.content_path)
PathOf(content_path) == content_path
ContentPathOf(h) == CASE h = "h1" -> "p1" [] OTHER -> ""
Paths == {ContentPathOf(h) : h \in Hashes}

\* the manager queue id of the queue entry whose downloadId is upper(h)
QueueIdOf(H) == CASE H = "H1" -> 11 [] OTHER -> 0

\* bound on the number of client / manager calls that raise in one behaviour
MaxFailures == 1

TorrentStates ==
    { "ERROR", "MISSING_FILES", "UPLOADING", "PAUSED_UPLOAD", "QUEUED_UPLOAD",
      "STALLED_UPLOAD", "CHECKING_UPLOAD", "FORCED_UPLOAD", "ALLOCATING",
      "DOWNLOADING", "METADATA_DOWNLOAD", "PAUSED_DOWNLOAD", "QUEUED_DOWNLOAD",
      "FORCED_DOWNLOAD", "STALLED_DOWNLOAD", "CHECKING_DOWNLOAD",
      "CHECKING_RESUME_DATA", "MOVING", "UNKNOWN" }

is_ignored_stateMutant(t) ==
    t.state_enum \in { "CHECKING_UPLOAD", "CHECKING_DOWNLOAD", "CHECKING_RESUME_DATA" }

is_ignored_state(t) ==
    t.state_enum \in { "FORCED_DOWNLOAD", "FORCED_UPLOAD", "CHECKING_UPLOAD",
                       "CHECKING_DOWNLOAD", "CHECKING_RESUME_DATA", "ALLOCATING",
                       "MOVING" }

is_uploading_state(t) ==
    t.state_enum \in { "UPLOADING", "STALLED_UPLOAD", "QUEUED_UPLOAD" }

is_complete_state(t) ==
    t.state_enum \in { "UPLOADING", "STALLED_UPLOAD", "PAUSED_UPLOAD", "QUEUED_UPLOAD" }

\* torrent.state_enum.is_downloading (qbittorrentapi.TorrentStates property)
is_downloading(t) ==
    t.state_enum \in { "DOWNLOADING", "METADATA_DOWNLOAD", "STALLED_DOWNLOAD",
                       "PAUSED_DOWNLOAD", "CHECKING_DOWNLOAD", "FORCED_DOWNLOAD",
                       "QUEUED_DOWNLOAD" }

\* a file of a torrent: id, priority and the outcome of the three exclusion tests
\* (extension not in the allowlist, parent folder match, file name match)
FileMarked(file) == file.mark # "ok"

-----------------------------------------------------------------------------
(* The classifier of process_torrents                                      *)

Branches == 1..14

\* torrent.hash in self.manager.managed_objects[torrent.category].sent_to_scan_hashes:
\* the branch is reached by torrents of the reconciler's own category only
AlreadySentToScanMutant(t) == FALSE

AlreadySentToScan(t) == t.hash \in sent_to_scan_hashes

\* torrent.hash in self.timed_ignore_cache or torrent.hash in self.timed_skip
InIgnoreCacheMutant(t, st) == t.hash \in st.timed_skip

InIgnoreCache(t, st) == (t.hash \in timed_ignore_cache) \/ (t.hash \in st.timed_skip)

\* The condition of the i-th branch of the if / elif chain; st carries the
\* intent sets as the loop has built them so far.
Cond(i, t, st) ==
    CASE i = 1 -> t.category = FAILED_CATEGORY
      [] i = 2 -> t.category = RECHECK_CATEGORY
      [] i = 3 -> is_ignored_state(t)
      [] i = 4 -> InIgnoreCache(t, st)
      [] i = 5 -> /\ t.progress >= maximum_deletable_percentage
                  /\ ~is_complete_state(t)
      [] i = 6 -> AlreadySentToScan(t)
      [] i = 7 -> t.state_enum = "ERROR"
      [] i = 8 -> /\ t.added_on > 0
                  /\ t.amount_left = 0
                  /\ is_complete_state(t)
                  /\ t.content_path # ""
                  /\ t.completion_on < time_now - 30
      [] i = 9 -> t.state_enum = "MISSING_FILES"
      [] i = 10 -> t.state_enum = "PAUSED_DOWNLOAD" /\ t.progress < 100
      [] i = 11 -> t.state_enum \in {"METADATA_DOWNLOAD", "STALLED_DOWNLOAD"}
      [] i = 12 -> /\ is_uploading_state(t)
                   /\ t.seeding_time > 1
                   /\ t.amount_left = 0
                   /\ t.added_on > 0
                   /\ t.content_path # ""
      [] i = 13 -> /\ t.state_enum # "PAUSED_DOWNLOAD"
                   /\ is_downloading(t)
                   /\ t.added_on < time_now - ignore_torrents_younger_than
                   /\ t.eta > maximum_eta
      [] i = 14 -> is_downloading(t)
      [] OTHER -> FALSE

\* elif: a branch runs when its condition holds and no earlier one did
BranchRunsMutant(i, t, st) ==
    /\ Cond(i, t, st)
    /\ \A j \in 1..(i - 1) : j = 3 \/ ~Cond(j, t, st)

BranchRuns(i, t, st) ==
    /\ Cond(i, t, st)
    /\ \A j \in 1..(i - 1) : ~Cond(j, t, st)

Fired(t, st) == { i \in Branches : BranchRuns(i, t, st) }

\* the file loop of the last branch (lines 1113-1168), from file k on
RECURSIVE FilterFiles(_, _, _, _, _, _)
FilterFiles(files, k, total, remove, h, st) ==
    IF k > Len(files) THEN st
    ELSE LET file == files[k] IN
         IF file.priority = 0
         THEN FilterFiles(files, k + 1, total - 1, remove, h, st)
         ELSE LET marked == FileMarked(file)
                  remove2 == IF marked THEN remove \cup {file.id} ELSE remove
                  total2 == IF marked THEN total - 1 ELSE total
                  st2 == IF total2 = 0
                         THEN [st EXCEPT !.delete = @ \cup {h}]
                         ELSE IF remove2 # {} /\ h \notin DOMAIN st.change_priority
                              THEN [st EXCEPT !.change_priority =
                                       [x \in DOMAIN @ \cup {h} |->
                                           IF x = h THEN remove2 ELSE @[x]]]
                              ELSE st
              IN FilterFiles(files, k + 1, total2, remove2, h, st2)

\* torrent.added_on < time_now - self.ignore_torrents_younger_than, in rule 11
StalledLongEnoughMutant(t) == TRUE

StalledLongEnough(t) == t.added_on < time_now - ignore_torrents_younger_than

\* the body of branch i
Apply(i, t, st) ==
    CASE i = 1 -> [st EXCEPT !.delete = @ \cup {t.hash}]
      [] i = 2 -> [st EXCEPT !.recheck = @ \cup {t.hash}]
      [] i = 5 -> IF t.last_activity < time_now - maximum_eta
                  THEN [st EXCEPT !.delete = @ \cup {t.hash}]
                  ELSE st
      [] i = 7 -> [st EXCEPT !.recheck = @ \cup {t.hash}]
      [] i = 8 -> [st EXCEPT !.pause = @ \cup {t.hash},
                             !.import_torrents =
                                 Append(@, [hash |-> t.hash, content_path |-> t.content_path])]
      [] i = 9 -> [st EXCEPT !.skip_blacklist = @ \cup {t.hash}]
      [] i = 10 -> [st EXCEPT !.resume = @ \cup {t.hash}]
      [] i = 11 -> IF StalledLongEnough(t)
                   THEN [st EXCEPT !.timed_skip = @ \cup {t.hash},
                                   !.delete = @ \cup {t.hash}]
                   ELSE [st EXCEPT !.timed_skip = @ \cup {t.hash}]
      [] i = 12 -> [st EXCEPT !.pause = @ \cup {t.hash}]
      [] i = 13 -> [st EXCEPT !.delete = @ \cup {t.hash}]
      [] i = 14 -> IF /\ t.added_on < time_now - ignore_torrents_younger_than
                      /\ t.availability < 100
                   THEN [st EXCEPT !.delete = @ \cup {t.hash}]
                   ELSE FilterFiles(t.files, 1, Len(t.files), {}, t.hash, st)
      [] OTHER -> st

RECURSIVE ApplyFrom(_, _, _, _)
ApplyFrom(i, bs, t, st) ==
    IF i > 14 THEN st
    ELSE ApplyFrom(i + 1, bs, t, IF i \in bs THEN Apply(i, t, st) ELSE st)

\* one iteration of `for torrent in torrents` of Arr.process_torrents
Classify1(st, t) ==
    LET st1 == [st EXCEPT
                  !.qbit_cache = IF t.category # RECHECK_CATEGORY
                                 THEN [x \in DOMAIN @ \cup {t.hash} |->
                                          IF x = t.hash THEN t.category ELSE @[x]]
                                 ELSE @,
                  !.name_cache = @ \cup {t.hash}]
        bs == Fired(t, st1)
        st2 == ApplyFrom(1, bs, t, st1)
    IN [st2 EXCEPT !.fired = [x \in DOMAIN @ \cup {t.hash} |->
                                 IF x = t.hash THEN bs ELSE @[x]]]

\* one iteration of the loop of PlaceHolderArr.process_torrents: branches 1 and 2 only
PlaceHolderClassify1(st, t) ==
    LET st1 == [st EXCEPT
                  !.qbit_cache = IF t.category # RECHECK_CATEGORY
                                 THEN [x \in DOMAIN @ \cup {t.hash} |->
                                          IF x = t.hash THEN t.category ELSE @[x]]
                                 ELSE @,
                  !.name_cache = @ \cup {t.hash}]
        bs == { i \in {1, 2} : BranchRuns(i, t, st1) }
        st2 == ApplyFrom(1, bs, t, st1)
    IN [st2 EXCEPT !.fired = [x \in DOMAIN @ \cup {t.hash} |->
                                 IF x = t.hash THEN bs ELSE @[x]]]

RECURSIVE ClassifyAll(_, _, _)
ClassifyAll(placeholder, ts, st) ==
    IF ts = << >> THEN st
    ELSE ClassifyAll(placeholder, Tail(ts),
                     IF placeholder THEN PlaceHolderClassify1(st, Head(ts))
                     ELSE Classify1(st, Head(ts)))

-----------------------------------------------------------------------------
(* History of the calls issued to the download client and the manager      *)

Item(h, id, flag, key) == [hash |-> h, id |-> id, flag |-> flag, key |-> key]
Effect(op, items) == [op |-> op, items |-> items]
HashItems(hs) == { Item(h, 0, FALSE, h) : h \in hs }

\* all the orders in which a loop may visit the members of a set
SeqsOf(S) ==
    { f \in [1..Cardinality(S) -> S] : \A i, j \in 1..Cardinality(S) : i # j => f[i] # f[j] }

Without(f, ks) == [x \in DOMAIN f \ ks |-> f[x]]

-----------------------------------------------------------------------------
(* Start of a tick: Arr.process_torrents up to the call of self.process()   *)

Intents ==
    [ pause |-> pause, resume |-> resume, recheck |-> recheck, delete |-> delete,
      skip_blacklist |-> skip_blacklist, change_priority |-> change_priority,
      import_torrents |-> import_torrents, timed_skip |-> timed_skip,
      name_cache |-> name_cache, qbit_cache |-> qbit_cache, fired |-> fired ]

Commit(st) ==
    /\ pause' = st.pause
    /\ resume' = st.resume
    /\ recheck' = st.recheck
    /\ delete' = st.delete
    /\ skip_blacklist' = st.skip_blacklist
    /\ change_priority' = st.change_priority
    /\ import_torrents' = st.import_torrents
    /\ timed_skip' = st.timed_skip
    /\ name_cache' = st.name_cache
    /\ qbit_cache' = st.qbit_cache
    /\ fired' = st.fired

\* the objects of the manager queue entry with this id (episode ids / movie id)
ObjectsOf(id) == IF kind = "radarr" THEN id + 200 ELSE << id + 100, id + 101 >>

\* api_calls finds the manager down: NoConnectionrException, the tick is skipped
ApiCallsNoConnectionMutant ==
    /\ pc = "idle" /\ kind \in {"sonarr", "radarr"}
    /\ ~should_delay_torrent_scan
    /\ pc' = "no_connection"
    /\ effects' = << [op |-> "torrents_pause", items |-> {} ] >>
    /\ UNCHANGED << build_vars, search_vars, kind, should_delay_torrent_scan, delay, config, failed_T, failed_skip, torrents, cache, requeue_cache, pause, resume, recheck, delete,
                    skip_blacklist, change_priority, import_torrents, sent_to_scan,
                    sent_to_scan_hashes, needs_cleanup, timed_ignore_cache, timed_skip,
                    name_cache, qbit_cache, fired, failures, scan_posts, probe >>

ApiCallsNoConnection ==
    /\ pc = "idle" /\ kind \in {"sonarr", "radarr"}
    /\ ~should_delay_torrent_scan
    /\ pc' = "no_connection"
    /\ UNCHANGED << build_vars, search_vars, kind, should_delay_torrent_scan, delay, config, failed_T, failed_skip, torrents, cache, requeue_cache, pause, resume, recheck, delete,
                    skip_blacklist, change_priority, import_torrents, sent_to_scan,
                    sent_to_scan_hashes, needs_cleanup, timed_ignore_cache, timed_skip,
                    name_cache, qbit_cache, fired, effects, failures, scan_posts, probe >>

\* refresh_download_queue: Q are the downloadIds of the manager queue, R those
\* whose entry names an episode / a movie
RefreshDownloadQueue ==
    /\ pc = "idle" /\ kind \in {"sonarr", "radarr"}
    /\ ~should_delay_torrent_scan
    /\ \E Q \in SUBSET {upper(h) : h \in Hashes} : \E R \in SUBSET Q :
         /\ cache' = [H \in Q |-> QueueIdOf(H)]
         /\ requeue_cache' = [id \in {QueueIdOf(H) : H \in R} |-> ObjectsOf(id)]
    /\ pc' = "classify"
    /\ UNCHANGED << build_vars, search_vars, kind, should_delay_torrent_scan, delay, config, failed_T, failed_skip, torrents, pause, resume, recheck, delete,
                    skip_blacklist, change_priority, import_torrents, sent_to_scan,
                    sent_to_scan_hashes, needs_cleanup, timed_ignore_cache, timed_skip,
                    name_cache, qbit_cache, fired, effects, failures, scan_posts, probe >>

-----------------------------------------------------------------------------
(* The torrents a snapshot may hold                                        *)

IsArr == kind \in {"sonarr", "radarr"}

\* self.category: the placeholders are named after their category
Category == IF IsArr THEN OWN_CATEGORY ELSE kind

File(id, priority, mark) == [id |-> id, priority |-> priority, mark |-> mark]

BaseTorrent ==
    [ hash |-> "h1", category |-> OWN_CATEGORY, state_enum |-> "DOWNLOADING",
      progress |-> 10, last_activity |-> time_now - 5, added_on |-> time_now - 60,
      amount_left |-> 1, content_path |-> "p1", completion_on |-> 0,
      seeding_time |-> 0, eta |-> 100, availability |-> 100,
      files |-> << File(0, 1, "ok") >> ]

\* the torrent shapes of the ticks of Spec: each classifier branch is taken by
\* one of them at least, and none by the PAUSED_UPLOAD one
Shapes ==
    { [BaseTorrent EXCEPT !.state_enum = "CHECKING_DOWNLOAD"],
      [BaseTorrent EXCEPT !.progress = 97],
      [BaseTorrent EXCEPT !.state_enum = "MISSING_FILES", !.progress = 100,
                          !.last_activity = time_now - 90000],
      [BaseTorrent EXCEPT !.state_enum = "ERROR"],
      [BaseTorrent EXCEPT !.state_enum = "UPLOADING", !.progress = 100,
                          !.amount_left = 0, !.completion_on = time_now - 60,
                          !.seeding_time = 60],
      [BaseTorrent EXCEPT !.state_enum = "UPLOADING", !.progress = 100,
                          !.amount_left = 0, !.completion_on = time_now - 5,
                          !.seeding_time = 5],
      [BaseTorrent EXCEPT !.state_enum = "PAUSED_UPLOAD", !.progress = 100,
                          !.amount_left = 0, !.completion_on = time_now - 5],
      [BaseTorrent EXCEPT !.state_enum = "MISSING_FILES"],
      [BaseTorrent EXCEPT !.state_enum = "PAUSED_DOWNLOAD"],
      [BaseTorrent EXCEPT !.state_enum = "STALLED_DOWNLOAD", !.added_on = time_now - 3600],
      [BaseTorrent EXCEPT !.state_enum = "STALLED_DOWNLOAD"],
      [BaseTorrent EXCEPT !.added_on = time_now - 3600, !.eta = 90000],
      [BaseTorrent EXCEPT !.added_on = time_now - 3600, !.availability = 50],
      [BaseTorrent EXCEPT !.files = << File(0, 1, "folder"), File(1, 1, "ok"),
                                       File(2, 1, "ext") >>],
      [BaseTorrent EXCEPT !.files = << File(0, 1, "ext"), File(1, 1, "name") >>] }

\* torrents.info.all(category=self.category): the torrents of this reconciler's
\* category, each hash at most once
TorrentsOf(h) ==
    { [s EXCEPT !.hash = h, !.category = Category,
                !.content_path = IF @ = "" THEN "" ELSE ContentPathOf(h)] :
        s \in IF IsArr THEN Shapes ELSE {BaseTorrent} }

Snapshots ==
    UNION { { ts \in [1..n -> UNION { TorrentsOf(h) : h \in Hashes }] :
                \A i, j \in 1..n : i # j => ts[i].hash # ts[j].hash } :
            n \in 0..Cardinality(Hashes) }

\* what the history keeps of a snapshot
Seen(ts) ==
    [k \in DOMAIN ts |-> [hash |-> ts[k].hash, state_enum |-> ts[k].state_enum,
                          added_on |-> ts[k].added_on, files |-> ts[k].files]]

\* the loop over the snapshot; self.process() follows
ClassifyTorrents ==
    /\ \/ pc = "classify" /\ IsArr
       \/ pc = "idle" /\ ~IsArr /\ ~should_delay_torrent_scan
    /\ \E ts \in Snapshots :
         /\ torrents' = Seen(ts)
         /\ Commit(ClassifyAll(~IsArr, ts, [Intents EXCEPT !.fired = << >>]))
    /\ pc' = IF IsArr THEN "paused" ELSE "errored"
    /\ effects' = << >>
    /\ UNCHANGED << build_vars, search_vars, kind, should_delay_torrent_scan, delay, config, failed_T, failed_skip, cache, requeue_cache, sent_to_scan, sent_to_scan_hashes,
                    needs_cleanup, timed_ignore_cache, failures, scan_posts, probe >>

-----------------------------------------------------------------------------
(* The flush: Arr.process and PlaceHolderArr.process                        *)

CanFail == failures < MaxFailures

\* an exception leaves self.process(); process_torrents logs it and returns
Raise ==
    /\ CanFail
    /\ failures' = failures + 1
    /\ pc' = "raised"

_process_paused ==
    /\ pc = "paused"
    /\ \/ /\ pause = {}
          /\ pc' = "errored"
          /\ UNCHANGED << pause, needs_cleanup, effects, failures >>
       \/ /\ pause # {}
          /\ needs_cleanup' = TRUE
          /\ \/ /\ effects' = Append(effects, Effect("torrents_pause", HashItems(pause)))
                /\ pause' = {}
                /\ pc' = "errored"
                /\ UNCHANGED failures
             \/ /\ Raise
                /\ UNCHANGED << pause, effects >>
    /\ UNCHANGED << build_vars, search_vars, kind, should_delay_torrent_scan, delay, config, failed_T, failed_skip, torrents, cache, requeue_cache, resume, recheck, delete, skip_blacklist,
                    change_priority, import_torrents, sent_to_scan, sent_to_scan_hashes,
                    timed_ignore_cache, timed_skip, name_cache, qbit_cache, fired,
                    scan_posts, probe >>

\* Arr._process_errored
_process_errored ==
    /\ pc = "errored" /\ IsArr
    /\ \/ /\ recheck = {}
          /\ pc' = "priority"
          /\ UNCHANGED << recheck, needs_cleanup, effects, failures, timed_ignore_cache >>
       \/ /\ recheck # {}
          /\ needs_cleanup' = TRUE
          /\ \/ /\ effects' = Append(effects, Effect("torrents_recheck", HashItems(recheck)))
                /\ timed_ignore_cache' = timed_ignore_cache \cup recheck
                /\ recheck' = {}
                /\ pc' = "priority"
                /\ UNCHANGED failures
             \/ /\ Raise
                /\ UNCHANGED << recheck, effects, timed_ignore_cache >>
    /\ UNCHANGED << build_vars, search_vars, kind, should_delay_torrent_scan, delay, config, failed_T, failed_skip, torrents, cache, requeue_cache, pause, resume, delete, skip_blacklist,
                    change_priority, import_torrents, sent_to_scan, sent_to_scan_hashes,
                    timed_skip, name_cache, qbit_cache, fired, scan_posts, probe >>

SetCategoryBackMutant(rechecked, temp) == rechecked

\* `for k, v in temp.items(): torrents_set_category(v, category=k)`, after the
\* recheck call
SetCategoryBack(rechecked, temp) ==
    IF temp = {} THEN rechecked
    ELSE Append(rechecked, Effect("torrents_set_category", temp))

\* PlaceHolderArr._process_errored: recheck, then put back the category that
\* qbit_manager.cache records for the hash
PlaceHolder_process_errored ==
    /\ pc = "errored" /\ ~IsArr
    /\ \/ /\ recheck = {}
          /\ pc' = "failed"
          /\ UNCHANGED << recheck, effects, failures, timed_ignore_cache >>
       \/ /\ recheck # {}
          /\ LET temp == { Item(h, 0, FALSE, qbit_cache[h]) :
                              h \in recheck \cap DOMAIN qbit_cache }
                 rechecked == Append(effects, Effect("torrents_recheck", HashItems(recheck)))
             IN \/ /\ effects' = SetCategoryBack(rechecked, temp)
                   /\ timed_ignore_cache' = timed_ignore_cache \cup recheck
                   /\ recheck' = {}
                   /\ pc' = "failed"
                   /\ UNCHANGED failures
                \/ /\ Raise
                   /\ effects' \in {effects} \cup (IF temp = {} THEN {} ELSE {rechecked})
                   /\ UNCHANGED << recheck, timed_ignore_cache >>
    /\ UNCHANGED << build_vars, search_vars, kind, should_delay_torrent_scan, delay, config, failed_T, failed_skip, torrents, cache, requeue_cache, pause, resume, delete, skip_blacklist,
                    change_priority, import_torrents, sent_to_scan, sent_to_scan_hashes,
                    needs_cleanup, timed_skip, name_cache, qbit_cache, fired, scan_posts,
                    probe >>

\* the loop deletes each entry it has handled; a raising torrents_file_priority
\* leaves the entries not yet handled
_process_file_priority ==
    /\ pc = "priority"
    /\ LET named(hs) == HashItems(hs \cap name_cache)
           log(hs) == IF named(hs) = {} THEN effects
                      ELSE Append(effects, Effect("torrents_file_priority", named(hs)))
       IN \/ /\ change_priority' = << >>
             /\ effects' = log(DOMAIN change_priority)
             /\ needs_cleanup' = (needs_cleanup \/ DOMAIN change_priority # {})
             /\ pc' = "imports"
             /\ UNCHANGED failures
          \/ \E h \in DOMAIN change_priority \cap name_cache :
             \E handled \in SUBSET (DOMAIN change_priority \ {h}) :
                /\ Raise
                /\ change_priority' = Without(change_priority, handled)
                /\ effects' = log(handled)
                /\ needs_cleanup' = TRUE
    /\ UNCHANGED << build_vars, search_vars, kind, should_delay_torrent_scan, delay, config, failed_T, failed_skip, torrents, cache, requeue_cache, pause, resume, recheck, delete,
                    skip_blacklist, import_torrents, sent_to_scan, sent_to_scan_hashes,
                    timed_ignore_cache, timed_skip, name_cache, qbit_cache, fired,
                    scan_posts, probe >>


\* the loop of _process_imports from entry k on; exists are the paths found on
\* disk, failAt the entry whose post_command raises (0: none). acc carries
\* skip_blacklist, sent_to_scan, sent_to_scan_hashes, the scans posted and
\* whether the loop was left by the exception.
\* self.import_mode = CONFIG.get(name, "importMode", fallback="Move")
import_mode == "Move"

\* post_command("DownloadedEpisodesScan", path=str(path),
\* downloadClientId=torrent.hash.upper(), importMode=self.import_mode)
DownloadedEpisodesScanMutant(torrent, path) ==
    [ hash |-> torrent.hash, id |-> 0, flag |-> FALSE, key |-> torrent.hash,
      path |-> path, importMode |-> import_mode ]

DownloadedEpisodesScan(torrent, path) ==
    [ hash |-> upper(torrent.hash), id |-> 0, flag |-> FALSE, key |-> torrent.hash,
      path |-> path, importMode |-> import_mode ]

\* `if not path.exists()`: self.skip_blacklist.add(torrent.hash.upper()); continue
MissingPathMutant(acc, torrent) ==
    [acc EXCEPT !.sent_to_scan_hashes = @ \cup {torrent.hash}]

MissingPath(acc, torrent) ==
    [acc EXCEPT !.skip_blacklist = @ \cup {upper(torrent.hash)}]

RECURSIVE ImportLoop(_, _, _, _, _)
ImportLoop(imports, k, exists, failAt, acc) ==
    IF k > Len(imports) THEN acc
    ELSE LET torrent == imports[k]
             path == PathOf(torrent.content_path)
         IN IF torrent.hash \in acc.sent_to_scan
            THEN ImportLoop(imports, k + 1, exists, failAt, acc)
            ELSE IF path \notin exists
            THEN ImportLoop(imports, k + 1, exists, failAt, MissingPath(acc, torrent))
            ELSE IF path \in acc.sent_to_scan
            THEN ImportLoop(imports, k + 1, exists, failAt, acc)
            ELSE IF k = failAt
            THEN [acc EXCEPT !.sent_to_scan_hashes = @ \cup {torrent.hash},
                             !.raised = TRUE]
            ELSE ImportLoop(imports, k + 1, exists, failAt,
                     [acc EXCEPT !.sent_to_scan_hashes = @ \cup {torrent.hash},
                                 !.sent_to_scan = @ \cup {path},
                                 !.posted = Append(@, DownloadedEpisodesScan(torrent, path))])

RECURSIVE LogScans(_, _)
LogScans(log, posted) ==
    IF posted = << >> THEN log
    ELSE LogScans(Append(log, Effect("DownloadedEpisodesScan", {Head(posted)})), Tail(posted))

\* the history counters stop at 2
Min2(n) == IF n > 2 THEN 2 ELSE n

CountPosts(posted, h) == Cardinality({ k \in DOMAIN posted : posted[k].key = h })

_process_imports ==
    /\ pc = "imports"
    /\ \/ /\ import_torrents = << >>
          /\ pc' = "failed"
          /\ UNCHANGED << import_torrents, skip_blacklist, sent_to_scan,
                          sent_to_scan_hashes, needs_cleanup, effects, failures, scan_posts >>
       \/ /\ import_torrents # << >>
          /\ needs_cleanup' = TRUE
          /\ \E exists \in SUBSET Paths :
             \E failAt \in 0..(IF CanFail THEN Len(import_torrents) ELSE 0) :
               LET acc == ImportLoop(import_torrents, 1, exists, failAt,
                              [ skip_blacklist |-> skip_blacklist,
                                sent_to_scan |-> sent_to_scan,
                                sent_to_scan_hashes |-> sent_to_scan_hashes,
                                posted |-> << >>, raised |-> FALSE ])
               IN /\ (failAt # 0) = acc.raised
                  /\ skip_blacklist' = acc.skip_blacklist
                  /\ sent_to_scan' = acc.sent_to_scan
                  /\ sent_to_scan_hashes' = acc.sent_to_scan_hashes
                  /\ effects' = LogScans(effects, acc.posted)
                  /\ scan_posts' = [h \in Hashes |->
                                      << Min2(scan_posts[h][1] + CountPosts(acc.posted, h)),
                                         Min2(scan_posts[h][2] + CountPosts(acc.posted, h)) >>]
                  /\ IF acc.raised
                     THEN Raise /\ UNCHANGED import_torrents
                     ELSE /\ import_torrents' = << >>
                          /\ pc' = "failed"
                          /\ UNCHANGED failures
    /\ UNCHANGED << build_vars, search_vars, kind, should_delay_torrent_scan, delay, config, failed_T, failed_skip, torrents, cache, requeue_cache, pause, resume, recheck, delete,
                    change_priority, timed_ignore_cache, timed_skip, name_cache,
                    qbit_cache, fired, probe >>

\* process_entries: the (queue id, upper-cased hash) of the hashes the cache resolves
process_entries(c, hashes) ==
    { Item(upper(h), c[upper(h)], FALSE, h) : h \in { x \in hashes : upper(x) \in DOMAIN c } }

\* the calls of _process_failed_individual for the entries of payload, in order,
\* from entry k on: delFailed are the entries whose delete_from_queue request
\* raised (suppressed), failAt the entry whose detail lookup or search command raised
\* delete_from_queue(id_, remove_from_client=True, blacklist=True): the request
\* DELETE /api/v3/queue/{id_} with its parameters
delete_from_queue(e, remove_from_client, blacklist) ==
    Effect("delete_from_queue",
           { [ hash |-> e.hash, id |-> e.id, flag |-> blacklist, key |-> e.key,
               removeFromClient |-> remove_from_client ] })

\* `if hash_ not in skip_blacklist` of _process_failed_individual: blacklist=True
BlacklistMutant(hash_, skip) == TRUE

Blacklist(hash_, skip) == hash_ \notin skip

ReSearchMutant(e, object_id) ==
    Effect(IF kind = "radarr" THEN "MoviesSearch" ELSE "EpisodeSearch",
           { [ hash |-> e.hash, id |-> e.id, flag |-> FALSE, key |-> e.key,
               ids |-> IF kind = "radarr" THEN << object_id >> ELSE << object_id[1] >> ] })

\* post_command("EpisodeSearch", episodeIds=object_id) for sonarr,
\* post_command("MoviesSearch", movieIds=[object_id]) for radarr
ReSearch(e, object_id) ==
    Effect(IF kind = "radarr" THEN "MoviesSearch" ELSE "EpisodeSearch",
           { [ hash |-> e.hash, id |-> e.id, flag |-> FALSE, key |-> e.key,
               ids |-> IF kind = "radarr" THEN << object_id >> ELSE object_id ] })

RECURSIVE FailedIndividuals(_, _, _, _, _, _, _)
FailedIndividuals(payload, k, skip, rq, delFailed, failAt, log) ==
    IF k > Len(payload) THEN log
    ELSE LET e == payload[k]
             log1 == Append(log, delete_from_queue(e, TRUE, Blacklist(e.hash, skip)))
         IN IF e.id \notin DOMAIN rq
            THEN FailedIndividuals(payload, k + 1, skip, rq, delFailed, failAt, log1)
            ELSE IF k = failAt THEN log1
            ELSE FailedIndividuals(payload, k + 1, skip, rq, delFailed, failAt,
                     Append(log1, ReSearch(e, rq[e.id])))

\* inputs of one run of _process_failed over payload: (delFailed, failAt), with
\* failAt = Len(payload) + 1 for a raising torrents_delete
FailureInputs(payload, rq) ==
    { << {}, 0 >> }
    \cup (IF CanFail
          THEN { << {k}, 0 >> : k \in 1..Len(payload) }
               \cup { << {}, k >> : k \in { j \in 1..Len(payload) : payload[j].id \in DOMAIN rq } }
               \cup { << {}, Len(payload) + 1 >> }
          ELSE {})

\* self.manager.qbit.torrents_delete(hashes=..., delete_files=...)
torrents_delete(hashes, delete_files) ==
    Effect("torrents_delete", { Item(h, 0, delete_files, h) : h \in hashes })

\* for h in to_delete_all: del name_cache[h], del cache[h] when present
EvictMutant(keys, to_delete_all) == keys

Evict(keys, to_delete_all) == keys \ to_delete_all

\* the entry ids _process_failed_individual posted a search command for, in the
\* calls log holds after its first n
ReSearched(log, n, rq) ==
    UNION { UNION { IF kind = "radarr" THEN {rq[it.id]}
                    ELSE { rq[it.id][i] : i \in DOMAIN rq[it.id] } :
                    it \in log[k].items } :
            k \in { j \in (n + 1)..Len(log) :
                      log[j].op \in {"MoviesSearch", "EpisodeSearch"} } }

\* the pending-search table after the re-search of ids: post_command alone, the
\* table is not touched (maybe_do_search inserts a row before it posts)
RequeuedRowsMutant(queue, ids) ==
    [x \in DOMAIN queue \cup ids |->
        IF x \notin DOMAIN queue THEN << FALSE >>
        ELSE IF x \in ids THEN Append(queue[x], FALSE) ELSE queue[x]]

RequeuedRows(queue, ids) == queue

FailedBody(entries, rq) ==
    LET to_delete_all == delete \cup skip_blacklist
        skip == { upper(i) : i \in skip_blacklist }
    IN \E payload \in SeqsOf(entries) : \E inp \in FailureInputs(payload, rq) :
         LET log == FailedIndividuals(payload, 1, skip, rq, inp[1], inp[2], effects)
         IN IF inp[2] # 0
            THEN /\ Raise
                 /\ effects' = log
                 /\ model_queue' = RequeuedRows(model_queue, ReSearched(log, Len(effects), rq))
                 /\ UNCHANGED << delete, skip_blacklist, name_cache, qbit_cache >>
            ELSE /\ effects' = Append(log, torrents_delete(to_delete_all, TRUE))
                 /\ model_queue' = RequeuedRows(model_queue, ReSearched(log, Len(effects), rq))
                 /\ name_cache' = Evict(name_cache, to_delete_all)
                 /\ qbit_cache' = Without(qbit_cache, DOMAIN qbit_cache \ Evict(DOMAIN qbit_cache, to_delete_all))
                 /\ delete' = {}
                 /\ skip_blacklist' = {}
                 /\ failures' = failures + Cardinality(inp[1])
                 /\ pc' = IF IsArr THEN "cleanup" ELSE "done"

\* Arr._process_failed
_process_failed ==
    /\ pc = "failed" /\ IsArr
    /\ failed_T' = delete \cup skip_blacklist
    /\ failed_skip' = skip_blacklist
    /\ IF delete \cup skip_blacklist = {}
       THEN /\ pc' = "cleanup"
            /\ UNCHANGED << delete, skip_blacklist, name_cache, qbit_cache, effects,
                            failures, needs_cleanup, model_queue >>
       ELSE /\ needs_cleanup' = TRUE
            /\ FailedBody(process_entries(cache, delete \cup skip_blacklist), requeue_cache)
    /\ UNCHANGED << search_current_year, spc, arr_file, entry_year, model_file, searched, selected, commands, candidates, idx, posts, active_at_start, queued_at_start >>
    /\ UNCHANGED << build_vars, kind, should_delay_torrent_scan, delay, config, cache, requeue_cache, pause, resume, recheck, change_priority,
                    import_torrents, sent_to_scan, sent_to_scan_hashes,
                    timed_ignore_cache, timed_skip, fired, scan_posts, torrents, probe >>

\* arr.cache of the managed objects as this worker holds them: the placeholder's
\* process never runs their refresh_download_queue
ManagedCaches == { << >> }

\* PlaceHolderArr._process_failed
PlaceHolder_process_failed ==
    /\ pc = "failed" /\ ~IsArr
    /\ failed_T' = delete \cup skip_blacklist
    /\ failed_skip' = skip_blacklist
    /\ IF delete \cup skip_blacklist = {}
       THEN /\ pc' = "done"
            /\ UNCHANGED << delete, skip_blacklist, name_cache, qbit_cache, effects, failures,
                            model_queue >>
       ELSE FailedBody(UNION { { e \in process_entries(c, delete \cup skip_blacklist) :
                                     e.hash \in DOMAIN c } : c \in ManagedCaches },
                       << >>)
    /\ UNCHANGED << search_current_year, spc, arr_file, entry_year, model_file, searched, selected, commands, candidates, idx, posts, active_at_start, queued_at_start >>
    /\ UNCHANGED << build_vars, kind, should_delay_torrent_scan, delay, config, cache, requeue_cache, pause, resume, recheck, change_priority,
                    import_torrents, sent_to_scan, sent_to_scan_hashes, needs_cleanup,
                    timed_ignore_cache, timed_skip, fired, scan_posts, torrents, probe >>


\* what folder_cleanup finds at a path of the completed folder: nothing, a file it
\* keeps, a file it removes, a file it may not remove (PermissionError), a folder
\* that is empty when _remove_empty_folders runs, a folder that is not
FsKinds == {"none", "file_ok", "file_bad", "file_locked", "dir_empty", "dir_full"}

\* _remove_empty_folders over the completed folder as folder_cleanup left it
RemovedFolders(fs) == { p \in DOMAIN fs : fs[p] = "dir_empty" }
FolderEmpty(fs) == \A p \in DOMAIN fs : fs[p] \notin {"file_ok", "file_locked", "dir_full"}

\* new_sent_to_scan of _remove_empty_folders: the removed folders that were not
\* in sent_to_scan
new_sent_to_scan(fs, sent) == RemovedFolders(fs) \ sent

\* if not len(list(absolute_file_paths(self.completed_folder))): forget what was sent
ResetMutant(fs) == TRUE

Reset(fs) == FolderEmpty(fs)

\* the entries absolute_file_paths(self.completed_folder) may yield: the content
\* path of a torrent, and an entry that belongs to no torrent
CleanupPaths == Paths \cup {"p0"}

file_extension_allowlist == {".mkv"}

\* pathlib.Path(name).suffix
Suffix(name) ==
    CASE name = "a.mkv" -> ".mkv"
      [] name = "a.txt" -> ".txt"
      [] name = "desktop.ini" -> ".ini"
      [] OTHER -> ""

\* what ffmpeg.probe does for a file: ffprobe is not in PATH, the file is in
\* files_probed, the probe returns output, returns none, raises ffmpeg.Error
ProbeOutcomes == {"unavailable", "probed_before", "ok", "empty", "error"}

FsEntry(k, name, probed, locked) ==
    [kind |-> k, name |-> name, probe |-> probed, locked |-> locked]

\* an entry of the completed folder: nothing, a folder that is empty or not when
\* _remove_empty_folders runs, a file (locked: unlink raises PermissionError)
FsFiles ==
    { FsEntry("file", n, pr, l) :
        n \in {"desktop.ini", "a.mkv", "a.txt"}, pr \in ProbeOutcomes, l \in BOOLEAN }

FsFolders == { FsEntry(k, "", "ok", FALSE) : k \in {"none", "dir_empty", "dir_full"} }

\* the completed folder as folder_cleanup finds it
AllFsSnapshots ==
    { fs \in [CleanupPaths -> FsFiles \cup FsFolders] : fs["p0"] \in FsFolders }

\* one file for each thing the loop does to a file: it keeps it, unlinks it,
\* fails to unlink it
SomeFsFiles ==
    { FsEntry("file", "a.mkv", "ok", FALSE), FsEntry("file", "a.txt", "ok", FALSE),
      FsEntry("file", "a.txt", "ok", TRUE) }

\* the completed folder in the ticks of the worker: the entry of no torrent is
\* never an empty folder there (its removal would only put a path no torrent has
\* into sent_to_scan)
FsSnapshots ==
    { fs \in AllFsSnapshots :
        /\ fs["p0"].kind # "dir_empty"
        /\ \A p \in DOMAIN fs : fs[p] \in SomeFsFiles \cup FsFolders }

file_is_probeableMutant(file) == TRUE

file_is_probeable(file) == file.probe \in {"unavailable", "probed_before", "ok"}

\* the two `continue` of the loop over the files
Keeps(file) ==
    \/ file.name \in {"desktop.ini", ".DS_Store"}
    \/ Suffix(file.name) \in file_extension_allowlist /\ file_is_probeable(file)

\* file.unlink(missing_ok=True) went through
Unlinked(file) == file.kind = "file" /\ ~Keeps(file) /\ ~file.locked

\* the completed folder after the loop over the files
AfterUnlink(fs) ==
    [p \in DOMAIN fs |->
        IF fs[p].kind # "file" THEN fs[p].kind
        ELSE IF Keeps(fs[p]) THEN "file_ok"
        ELSE IF fs[p].locked THEN "file_locked"
        ELSE "file_bad"]

\* the body of folder_cleanup once it runs, with the history log it appends to
FolderCleanupBody(fs, log) ==
    LET out == AfterUnlink(fs) IN
    /\ sent_to_scan' = IF Reset(out) THEN {}
                       ELSE new_sent_to_scan(out, sent_to_scan)
    /\ sent_to_scan_hashes' = IF Reset(out) THEN {} ELSE sent_to_scan_hashes
    /\ scan_posts' = IF Reset(out)
                     THEN [h \in Hashes |-> << 0, scan_posts[h][2] >>]
                     ELSE scan_posts
    /\ needs_cleanup' = FALSE
    /\ effects' = Append(log,
           Effect("folder_cleanup", {Item("", 0, FolderEmpty(out), "")}))

folder_cleanup ==
    /\ pc = "cleanup"
    /\ pc' = "done"
    /\ IF ~config.auto_delete \/ ~needs_cleanup
       THEN UNCHANGED << sent_to_scan, sent_to_scan_hashes, needs_cleanup, effects, scan_posts >>
       ELSE \E fs \in FsSnapshots : FolderCleanupBody(fs, effects)
    /\ UNCHANGED << build_vars, search_vars, kind, should_delay_torrent_scan, delay, config, failed_T, failed_skip, torrents, cache, requeue_cache, pause, resume, recheck, delete,
                    skip_blacklist, change_priority, import_torrents, timed_ignore_cache,
                    timed_skip, name_cache, qbit_cache, fired, failures, probe >>

\* Arr.process and PlaceHolderArr.process call the steps in this order
process ==
    \/ _process_paused
    \/ _process_errored
    \/ _process_file_priority
    \/ _process_imports
    \/ _process_failed
    \/ folder_cleanup
    \/ PlaceHolder_process_errored
    \/ PlaceHolder_process_failed

\* run_torrent_loop: time.sleep(LOOP_SLEEP_TIMER), then the next tick
Sleep ==
    /\ pc \in {"done", "raised", "no_connection"}
    /\ pc' = "idle"
    /\ effects' = << >>
    /\ fired' = << >>
    /\ failed_T' = {}
    /\ failed_skip' = {}
    /\ torrents' = << >>
    /\ UNCHANGED << build_vars, search_vars, kind, should_delay_torrent_scan, delay, config, cache, requeue_cache, pause, resume, recheck, delete,
                    skip_blacklist, change_priority, import_torrents, sent_to_scan,
                    sent_to_scan_hashes, needs_cleanup, timed_ignore_cache, timed_skip,
                    name_cache, qbit_cache, failures, scan_posts, probe >>

\* `raise DelayLoopException(length=..., type=...)`
DelayLoopException(length, type) == [length |-> length, type |-> type]

\* the checks before the snapshot is fetched: qbit_manager.is_alive in
\* run_torrent_loop, then has_internet() and the delay flag in process_torrents
DelayLoop ==
    /\ pc = "idle"
    /\ \/ /\ should_delay_torrent_scan' = TRUE
          /\ delay' = DelayLoopException(300, "qbit")
       \/ /\ should_delay_torrent_scan' = TRUE
          /\ delay' = DelayLoopException(NO_INTERNET_SLEEP_TIMER, "internet")
       \/ /\ should_delay_torrent_scan
          /\ delay' = DelayLoopException(NO_INTERNET_SLEEP_TIMER, "delay")
          /\ UNCHANGED should_delay_torrent_scan
    /\ pc' = "delay"
    /\ UNCHANGED << build_vars, search_vars, kind, config, failed_T, failed_skip, torrents, cache, requeue_cache, pause, resume, recheck, delete,
                    skip_blacklist, change_priority, import_torrents, sent_to_scan,
                    sent_to_scan_hashes, needs_cleanup, timed_ignore_cache, timed_skip,
                    name_cache, qbit_cache, fired, effects, failures, scan_posts, probe >>

DelaySleepMutant ==
    /\ pc = "delay"
    /\ pc' = "idle"
    /\ delay' = NoDelay
    /\ UNCHANGED << should_delay_torrent_scan, build_vars, search_vars, kind, config, failed_T, failed_skip, torrents, cache, requeue_cache, pause, resume, recheck, delete,
                    skip_blacklist, change_priority, import_torrents, sent_to_scan,
                    sent_to_scan_hashes, needs_cleanup, timed_ignore_cache, timed_skip,
                    name_cache, qbit_cache, fired, effects, failures, scan_posts, probe >>

\* `except DelayLoopException as e`: time.sleep(e.length), then the flag is
\* cleared and the loop goes on
DelaySleep ==
    /\ pc = "delay"
    /\ pc' = "idle"
    /\ should_delay_torrent_scan' = FALSE
    /\ delay' = NoDelay
    /\ UNCHANGED << build_vars, search_vars, kind, config, failed_T, failed_skip, torrents, cache, requeue_cache, pause, resume, recheck, delete,
                    skip_blacklist, change_priority, import_torrents, sent_to_scan,
                    sent_to_scan_hashes, needs_cleanup, timed_ignore_cache, timed_skip,
                    name_cache, qbit_cache, fired, effects, failures, scan_posts, probe >>

\* ExpiringSet: an entry leaves the set when it is max_age_seconds old
Expire ==
    /\ pc = "idle"
    /\ \/ \E h \in timed_ignore_cache :
            timed_ignore_cache' = timed_ignore_cache \ {h} /\ UNCHANGED timed_skip
       \/ \E h \in timed_skip :
            timed_skip' = timed_skip \ {h} /\ UNCHANGED timed_ignore_cache
    /\ UNCHANGED << build_vars, search_vars, kind, should_delay_torrent_scan, delay, config, failed_T, failed_skip, torrents, pc, cache, requeue_cache, pause, resume, recheck, delete,
                    skip_blacklist, change_priority, import_torrents, sent_to_scan,
                    sent_to_scan_hashes, needs_cleanup, name_cache, qbit_cache, fired,
                    effects, failures, scan_posts, probe >>

-----------------------------------------------------------------------------
(* The search loop: Arr.run_search_loop                                     *)

\* datetime.now().year
NowYear == 1904

\* the stopping year of forward mode
forward_stopping_year == 1900

MaxCommands == 2

Entries == {1, 2}

StartYears == {1901, 1902}
LastYears == {1902, 1903}
SearchLimits == {1, 2}

_delta == IF config.search_in_reverse THEN 1 ELSE -1

\* count_start = self.search_current_year, as __init__ set it
count_start ==
    IF config.search_in_reverse THEN config.search_ending_year
    ELSE config.search_starting_year

stopping_yearMutant == IF config.search_in_reverse THEN NowYear + 2 ELSE forward_stopping_year - 2

stopping_year == IF config.search_in_reverse THEN NowYear ELSE forward_stopping_year

\* the rows of the manager catalog db_update selects: those of the current year
InWindow(e, year) == entry_year[e] = year

\* db_get_files: the local rows of the year without a file, ordered
FilesOf(files, year) ==
    LET ids == { e \in DOMAIN files : files[e] = 0 /\ InWindow(e, year) }
    IN CHOOSE q \in SeqsOf(ids) : \A i, j \in DOMAIN q : i < j => q[i] < q[j]

\* _update_current_year
UpdatedYearMutant(files, year) == year

UpdatedYear(files, year) == IF FilesOf(files, year) = << >> THEN year + _delta ELSE year

\* the local `searched` of db_update_single_series: False, and for a movie True
\* when it has a file
Searched(e) == kind = "radarr" /\ arr_file[e] # 0

\* on conflict: self.model_file.searched: searched or self.model_file.searched
UpsertSearchedMutant(new, old) == new

UpsertSearched(new, old) == new \/ old

\* the selected rows db_update_single_series upserts: db_commands.execute() is
\* not reached when the metadata lookup raised
UpsertedRowsMutant(rows, lost) == {}

UpsertedRows(rows, lost) == rows \ lost

\* self.model_queue.update(completed=True).where(EntryId == db_entry.Id), over
\* the rows of that entry
MarkCompletedMutant(rows) == rows

MarkCompleted(rows) == [i \in DOMAIN rows |-> TRUE]

\* db_update: db_update_single_series for every catalog row of the window, then
\* _update_current_year; lost are the rows whose metadata lookup raised (logged
\* and skipped, after the pending row was marked). run_search_loop calls
\* db_update outside its try: when the query over the manager catalog raises,
\* the exception leaves run_search_loop and the search worker ends ("dead")
db_update ==
    /\ spc = "db_update"
    /\ \/ /\ CanFail
          /\ failures' = failures + 1
          /\ spc' = "dead"
          /\ UNCHANGED << model_queue, model_file, searched, selected, search_current_year >>
       \/ \E lost \in SUBSET { e \in Entries : kind = "sonarr" /\ CanFail
                                             /\ InWindow(e, search_current_year) } :
         LET rows == { e \in Entries : InWindow(e, search_current_year) }
             upserted == UpsertedRows(rows, lost)
             files == [e \in DOMAIN model_file \cup upserted |->
                          IF e \in upserted THEN arr_file[e] ELSE model_file[e]]
         IN /\ Cardinality(lost) <= 1
            /\ model_queue' = [e \in DOMAIN model_queue |->
                                  IF e \in rows /\ arr_file[e] # 0
                                  THEN MarkCompleted(model_queue[e])
                                  ELSE model_queue[e]]
            /\ model_file' = files
            /\ searched' = [e \in DOMAIN files |->
                               IF e \notin upserted THEN searched[e]
                               ELSE IF e \in DOMAIN model_file
                                    THEN UpsertSearched(Searched(e), searched[e])
                                    ELSE Searched(e)]
            /\ selected' = selected \cup rows
            /\ search_current_year' = UpdatedYear(files, search_current_year)
            /\ failures' = failures + Cardinality(lost)
            /\ spc' = "files"
    /\ UNCHANGED << arr_file, entry_year, commands, candidates, idx, posts,
                    active_at_start, queued_at_start >>
    /\ UNCHANGED << build_vars, kind, should_delay_torrent_scan, delay, config, pc, cache, requeue_cache, pause, resume, recheck, delete,
                    skip_blacklist, change_priority, import_torrents, sent_to_scan,
                    sent_to_scan_hashes, needs_cleanup, timed_ignore_cache, timed_skip,
                    name_cache, qbit_cache, fired, effects, scan_posts, failed_T, failed_skip, torrents, probe >>

\* the pending-search table holds a row of the entry with completed = False
HasIncompleteRow(e) ==
    e \in DOMAIN model_queue /\ \E i \in DOMAIN model_queue[e] : ~model_queue[e][i]

\* `if queue:` of maybe_do_search, over the rows selected for the entry
AlreadyQueuedMutant(e) == FALSE

AlreadyQueued(e) == HasIncompleteRow(e)

\* for entry in self.db_get_files(): the query runs when the loop starts
db_get_files ==
    /\ spc = "files"
    /\ candidates' = FilesOf(model_file, search_current_year)
    /\ idx' = 1
    /\ posts' = 0
    /\ active_at_start' = commands
    /\ queued_at_start' = { e \in Entries :
                              /\ \E k \in DOMAIN candidates' : candidates'[k] = e
                              /\ HasIncompleteRow(e) }
    /\ spc' = "search"
    /\ UNCHANGED << search_current_year, arr_file, entry_year, model_file, model_queue,
                    searched, selected, commands >>
    /\ UNCHANGED << build_vars, torrent_vars >>

NoTorrent == [BaseTorrent EXCEPT !.hash = ""]

\* active_commands >= self.search_command_limit
TooManyCommandsMutant(active_commands) == active_commands > config.search_command_limit

TooManyCommands(active_commands) == active_commands >= config.search_command_limit

UnchangedTorrentButFailures ==
    UNCHANGED << build_vars, kind, should_delay_torrent_scan, delay, config, pc, cache, requeue_cache, pause, resume, recheck, delete,
                 skip_blacklist, change_priority, import_torrents, sent_to_scan,
                 sent_to_scan_hashes, needs_cleanup, timed_ignore_cache, timed_skip,
                 name_cache, qbit_cache, fired, effects, scan_posts, failed_T, failed_skip, torrents, probe >>

\* maybe_do_search(entry) for the candidate the loop is at: True (already queued
\* or searched), False (too many commands: the loop sleeps and calls again), or
\* post_command raises after the row was inserted and the loop starts over
maybe_do_search ==
    /\ spc = "search" /\ idx <= Len(candidates)
    /\ LET e == candidates[idx] IN
       IF AlreadyQueued(e)
       THEN /\ idx' = idx + 1
            /\ UNCHANGED << spc, model_queue, commands, posts, failures >>
       ELSE IF TooManyCommands(commands)
       THEN /\ spc' = "sleep"
            /\ UNCHANGED << idx, model_queue, commands, posts, failures >>
       ELSE /\ model_queue' = [x \in DOMAIN model_queue \cup {e} |->
                                  IF x # e THEN model_queue[x]
                                  ELSE IF e \in DOMAIN model_queue
                                       THEN Append(model_queue[e], FALSE)
                                       ELSE << FALSE >>]
            /\ \/ /\ posts' = posts + 1
                  /\ idx' = idx + 1
                  /\ \E started \in {0, 1} :
                       commands' = IF commands + started > MaxCommands THEN MaxCommands
                                   ELSE commands + started
                  /\ UNCHANGED << spc, failures >>
               \/ /\ CanFail
                  /\ failures' = failures + 1
                  /\ spc' = "db_update"
                  /\ UNCHANGED << idx, commands, posts >>
    /\ UNCHANGED << search_current_year, arr_file, entry_year, model_file, searched,
                    selected, candidates,
                    active_at_start, queued_at_start >>
    /\ UnchangedTorrentButFailures

\* while self.maybe_do_search(entry) is False: time.sleep(30)
sleep_and_retry ==
    /\ spc = "sleep"
    /\ spc' = "search"
    /\ UNCHANGED << search_current_year, arr_file, entry_year, model_file, model_queue,
                    searched, selected, commands, candidates, idx, posts, active_at_start, queued_at_start >>
    /\ UNCHANGED << build_vars, torrent_vars >>

\* after the last candidate: the year moves on, and wraps past the stopping year
advance_year ==
    /\ spc = "search" /\ idx > Len(candidates)
    /\ LET year == search_current_year + _delta IN
       search_current_year' =
           IF config.search_in_reverse
           THEN (IF year > stopping_year THEN count_start ELSE year)
           ELSE (IF year < stopping_year THEN count_start ELSE year)
    /\ spc' = "db_update"
    /\ UNCHANGED << arr_file, entry_year, model_file, model_queue, searched, selected,
                    commands, candidates,
                    idx, posts, active_at_start, queued_at_start >>
    /\ UNCHANGED << build_vars, torrent_vars >>

\* the pending-search rows of an entry; the catalog loses the file of an entry
\* with fewer than MaxRows of them
MaxRows == 1
RowsOf(e) == IF e \in DOMAIN model_queue THEN Len(model_queue[e]) ELSE 0

\* the manager: a search command ends, another client starts one, an entry
\* gets its file or loses it (db_update alone reads the catalog: a change of it is
\* taken at the point where the loop can next see it)
ManagerStep ==
    /\ spc \notin {"off", "dead"}
    /\ \/ commands > 0 /\ commands' = commands - 1 /\ UNCHANGED arr_file
       \/ commands < MaxCommands /\ commands' = commands + 1 /\ UNCHANGED arr_file
       \/ \E e \in Entries :
            /\ spc = "db_update"
            /\ arr_file[e] # 0 => RowsOf(e) < MaxRows
            /\ arr_file' = [arr_file EXCEPT ![e] = IF @ = 0 THEN 7 ELSE 0]
            /\ UNCHANGED commands
    /\ UNCHANGED << search_current_year, spc, entry_year, model_file, model_queue,
                    searched, selected,
                    candidates, idx, posts, active_at_start, queued_at_start >>
    /\ UNCHANGED << build_vars, torrent_vars >>

-----------------------------------------------------------------------------
(* ArrManager.build_arr_instances                                          *)

\* a worker process does not build reconcilers
BuildOff ==
    /\ sections = << >>
    /\ bpc = "off" /\ bk = 1
    /\ groups = {} /\ uris = {}
    /\ managed_objects = << >>
    /\ constructed = << >> /\ dropped = << >>

\* the section names of the configuration file: a file has no two sections of
\* one name
SectionNames == << "radarr-1", "sonarr-1" >>

\* what the model varies of a section: Managed, URI, Category, whether the
\* completed folder of the category exists, and a key the section lacks
SectionsOf(name) ==
    { [ name |-> name, managed |-> m, uri |-> u, category |-> c, folder_exists |-> f,
        missing |-> k ] :
        m \in BOOLEAN, u \in {"u1", "u2"}, c \in {"c1", "c2", FAILED_CATEGORY},
        f \in BOOLEAN, k \in {"none", "Managed", "APIKey"} }

\* self.completed_folder.exists()
CompletedFolderExistsMutant(section) == TRUE

CompletedFolderExists(section) == section.folder_exists

\* Arr.__init__: the exception it raises, or "ok"
ArrInit(section, g, u) ==
    IF section.name \in g THEN "EnvironmentError"
    ELSE IF section.missing = "Managed" THEN "NoOptionError"
    ELSE IF ~section.managed THEN "SkipException"
    ELSE IF section.uri \in u THEN "EnvironmentError"
    ELSE IF ~CompletedFolderExists(section) THEN "EnvironmentError"
    ELSE IF section.missing = "APIKey" THEN "NoOptionError"
    ELSE "ok"

\* one iteration of `for key in CONFIG.sections()`: every exception of the
\* constructor is caught, logged (SkipException is not) and the loop goes on
build_section ==
    /\ bpc = "build" /\ bk <= Len(sections)
    /\ LET section == sections[bk]
           r == ArrInit(section, groups, uris)
       IN IF r = "ok"
          THEN /\ groups' = groups \cup {section.name}
               /\ uris' = uris \cup {section.uri}
               /\ managed_objects' =
                      [c \in DOMAIN managed_objects \cup {section.category} |->
                          IF c = section.category THEN section.name ELSE managed_objects[c]]
               /\ constructed' = Append(constructed,
                                        [name |-> section.name, category |-> section.category])
               /\ UNCHANGED dropped
          ELSE /\ dropped' = [n \in DOMAIN dropped \cup {section.name} |->
                                 IF n = section.name THEN r ELSE dropped[n]]
               /\ UNCHANGED << groups, uris, managed_objects, constructed >>
    /\ bk' = bk + 1
    /\ UNCHANGED << sections, bpc >>
    /\ UNCHANGED << search_vars, torrent_vars >>

\* for cat in self.special_categories: the placeholders, named after their category
build_placeholders ==
    /\ bpc = "build" /\ bk > Len(sections)
    /\ managed_objects' =
           [c \in DOMAIN managed_objects \cup {FAILED_CATEGORY, RECHECK_CATEGORY} |->
               IF c \in {FAILED_CATEGORY, RECHECK_CATEGORY} THEN c ELSE managed_objects[c]]
    /\ constructed' = constructed \o << [name |-> FAILED_CATEGORY, category |-> FAILED_CATEGORY],
                                         [name |-> RECHECK_CATEGORY, category |-> RECHECK_CATEGORY] >>
    /\ bpc' = "built"
    /\ UNCHANGED << sections, bk, groups, uris, dropped >>
    /\ UNCHANGED << search_vars, torrent_vars >>

\* the search loop is another process than the torrent loop
SearchOff ==
    /\ search_current_year = 0
    /\ spc = "off"
    /\ arr_file = << >> /\ entry_year = << >>
    /\ model_file = << >> /\ model_queue = << >>
    /\ searched = << >> /\ selected = {}
    /\ commands = 0
    /\ candidates = << >> /\ idx = 1 /\ posts = 0
    /\ active_at_start = 0 /\ queued_at_start = {}

SearchConfigs ==
    { [ auto_delete |-> FALSE, search_in_reverse |-> r, search_starting_year |-> sy,
        search_ending_year |-> ly, search_command_limit |-> l ] :
        r \in BOOLEAN, sy \in StartYears, ly \in LastYears, l \in SearchLimits }

\* Arr.__init__ with SearchMissing set, up to the first db_update of run_search_loop
SearchInit ==
    /\ kind \in {"sonarr", "radarr"}
    /\ config \in SearchConfigs
    /\ search_current_year = count_start
    /\ spc = "db_update"
    /\ arr_file \in [Entries -> {0, 7}]
    /\ entry_year \in [Entries -> {config.search_starting_year, config.search_ending_year}]
    /\ model_file = << >> /\ model_queue = << >>
    /\ searched = << >> /\ selected = {}
    /\ commands \in 0..MaxCommands
    /\ candidates = << >> /\ idx = 1 /\ posts = 0
    /\ active_at_start = 0 /\ queued_at_start = {}
    /\ pc = "off"
    /\ cache = << >> /\ requeue_cache = << >>
    /\ pause = {} /\ resume = {} /\ recheck = {} /\ delete = {} /\ skip_blacklist = {}
    /\ change_priority = << >> /\ import_torrents = << >>
    /\ sent_to_scan = {} /\ sent_to_scan_hashes = {}
    /\ needs_cleanup = FALSE
    /\ timed_ignore_cache = {} /\ timed_skip = {}
    /\ name_cache = {} /\ qbit_cache = << >>
    /\ fired = << >> /\ effects = << >>
    /\ failures = 0
    /\ should_delay_torrent_scan = FALSE /\ delay = NoDelay
    /\ scan_posts = [h \in Hashes |-> << 0, 0 >>]
    /\ failed_T = {} /\ failed_skip = {} /\ torrents = << >>
    /\ probe = NoTorrent
    /\ BuildOff

\* ArrManager.__init__, and the configuration build_arr_instances reads
BuildInit ==
    /\ sections \in { q \in [DOMAIN SectionNames -> UNION { SectionsOf(SectionNames[i]) :
                                                              i \in DOMAIN SectionNames }] :
                         \A i \in DOMAIN q : q[i].name = SectionNames[i] }
    /\ bpc = "build" /\ bk = 1
    /\ groups = {} /\ uris = {}
    /\ managed_objects = << >>
    /\ constructed = << >> /\ dropped = << >>
    /\ kind = "sonarr"
    /\ config \in { d \in SearchConfigs :
                       /\ ~d.search_in_reverse /\ d.search_command_limit = 1
                       /\ d.search_starting_year = d.search_ending_year
                       /\ d.search_starting_year = 1902 }
    /\ pc = "off"
    /\ cache = << >> /\ requeue_cache = << >>
    /\ pause = {} /\ resume = {} /\ recheck = {} /\ delete = {} /\ skip_blacklist = {}
    /\ change_priority = << >> /\ import_torrents = << >>
    /\ sent_to_scan = {} /\ sent_to_scan_hashes = {}
    /\ needs_cleanup = FALSE
    /\ timed_ignore_cache = {} /\ timed_skip = {}
    /\ name_cache = {} /\ qbit_cache = << >>
    /\ fired = << >> /\ effects = << >>
    /\ failures = 0
    /\ should_delay_torrent_scan = FALSE /\ delay = NoDelay
    /\ scan_posts = [h \in Hashes |-> << 0, 0 >>]
    /\ failed_T = {} /\ failed_skip = {} /\ torrents = << >>
    /\ probe = NoTorrent
    /\ SearchOff

\* run_search_loop of a manager that answers every request: no call raises, and
\* the catalog holds entries of the year the loop starts at and of the next
\* year of its sweep
LiveSearchInit ==
    /\ kind \in {"sonarr", "radarr"}
    /\ config \in SearchConfigs
    /\ search_current_year = count_start
    /\ spc = "db_update"
    /\ arr_file \in [Entries -> {0, 7}]
    /\ entry_year \in [Entries -> {count_start, count_start + _delta}]
    /\ model_file = << >> /\ model_queue = << >>
    /\ searched = << >> /\ selected = {}
    /\ commands \in 0..MaxCommands
    /\ candidates = << >> /\ idx = 1 /\ posts = 0
    /\ active_at_start = 0 /\ queued_at_start = {}
    /\ pc = "off"
    /\ cache = << >> /\ requeue_cache = << >>
    /\ pause = {} /\ resume = {} /\ recheck = {} /\ delete = {} /\ skip_blacklist = {}
    /\ change_priority = << >> /\ import_torrents = << >>
    /\ sent_to_scan = {} /\ sent_to_scan_hashes = {}
    /\ needs_cleanup = FALSE
    /\ timed_ignore_cache = {} /\ timed_skip = {}
    /\ name_cache = {} /\ qbit_cache = << >>
    /\ fired = << >> /\ effects = << >>
    /\ failures = MaxFailures
    /\ should_delay_torrent_scan = FALSE /\ delay = NoDelay
    /\ scan_posts = [h \in Hashes |-> << 0, 0 >>]
    /\ failed_T = {} /\ failed_skip = {} /\ torrents = << >>
    /\ probe = NoTorrent
    /\ BuildOff

BuildNext ==
    \/ build_section
    \/ build_placeholders

SearchNext ==
    \/ db_update
    \/ db_get_files
    \/ maybe_do_search
    \/ sleep_and_retry
    \/ advance_year
    \/ ManagerStep



\* Arr.__init__ / PlaceHolderArr.__init__
InitTorrent ==
    /\ kind \in {"sonarr", "radarr", "failed", "recheck"}
    /\ config \in { [c EXCEPT !.auto_delete = a] :
                      a \in (IF IsArr THEN BOOLEAN ELSE {FALSE}),
                      c \in { d \in SearchConfigs :
                                 /\ ~d.search_in_reverse /\ d.search_command_limit = 1
                                 /\ d.search_starting_year = d.search_ending_year } }
    /\ pc = "idle"
    /\ cache = << >>
    /\ requeue_cache = << >>
    /\ pause = {} /\ resume = {} /\ recheck = {} /\ delete = {} /\ skip_blacklist = {}
    /\ change_priority = << >>
    /\ import_torrents = << >>
    /\ sent_to_scan = {} /\ sent_to_scan_hashes = {}
    /\ needs_cleanup = FALSE
    /\ timed_ignore_cache = {} /\ timed_skip = {}
    /\ name_cache = {}
    /\ qbit_cache = << >>
    /\ fired = << >>
    /\ effects = << >>
    /\ failures = 0
    /\ should_delay_torrent_scan = FALSE /\ delay = NoDelay
    /\ scan_posts = [h \in Hashes |-> << 0, 0 >>]
    /\ failed_T = {} /\ failed_skip = {} /\ torrents = << >>
    /\ probe = NoTorrent
    /\ SearchOff
    /\ BuildOff

\* the local store the search worker of the same reconciler has written: the
\* torrent worker is another process over the same database file
Stores ==
    { [ file |-> [e \in Entries |-> IF e = 1 THEN 0 ELSE 7],
        queue |-> [e \in Entries |-> << e # 1 >>],
        searched |-> [e \in Entries |-> e # 1 /\ kind = "radarr"] ] }

\* the torrent worker of a reconciler whose local store holds rows
StoreInit ==
    /\ kind \in {"sonarr", "radarr", "failed", "recheck"}
    /\ config \in { [c EXCEPT !.auto_delete = a] :
                      a \in (IF IsArr THEN BOOLEAN ELSE {FALSE}),
                      c \in { d \in SearchConfigs :
                                 /\ ~d.search_in_reverse /\ d.search_command_limit = 1
                                 /\ d.search_starting_year = d.search_ending_year } }
    /\ pc = "idle"
    /\ cache = << >>
    /\ requeue_cache = << >>
    /\ pause = {} /\ resume = {} /\ recheck = {} /\ delete = {} /\ skip_blacklist = {}
    /\ change_priority = << >>
    /\ import_torrents = << >>
    /\ sent_to_scan = {} /\ sent_to_scan_hashes = {}
    /\ needs_cleanup = FALSE
    /\ timed_ignore_cache = {} /\ timed_skip = {}
    /\ name_cache = {}
    /\ qbit_cache = << >>
    /\ fired = << >>
    /\ effects = << >>
    /\ failures = 0
    /\ should_delay_torrent_scan = FALSE /\ delay = NoDelay
    /\ scan_posts = [h \in Hashes |-> << 0, 0 >>]
    /\ failed_T = {} /\ failed_skip = {} /\ torrents = << >>
    /\ probe = NoTorrent
    /\ search_current_year = 0
    /\ spc = "off"
    /\ arr_file = << >> /\ entry_year = << >>
    /\ \E st \in Stores :
         /\ model_file = st.file
         /\ model_queue = st.queue
         /\ searched = st.searched
    /\ selected = {}
    /\ commands = 0
    /\ candidates = << >> /\ idx = 1 /\ posts = 0
    /\ active_at_start = 0 /\ queued_at_start = {}
    /\ BuildOff

\* qbit_manager.cache as a placeholder may find it: empty, or holding the
\* category another reconciler recorded for the hash before the torrent was
\* moved to the special category
SupervisorCaches ==
    IF IsArr THEN { << >> }
    ELSE { << >> } \cup { [h \in Hashes |-> c] : c \in {OWN_CATEGORY, FAILED_CATEGORY} }

\* the torrent worker over a supervisor cache other reconcilers have written
SharedCacheInit ==
    /\ kind \in {"sonarr", "radarr", "failed", "recheck"}
    /\ config \in { [c EXCEPT !.auto_delete = a] :
                      a \in (IF IsArr THEN BOOLEAN ELSE {FALSE}),
                      c \in { d \in SearchConfigs :
                                 /\ ~d.search_in_reverse /\ d.search_command_limit = 1
                                 /\ d.search_starting_year = d.search_ending_year } }
    /\ pc = "idle"
    /\ cache = << >>
    /\ requeue_cache = << >>
    /\ pause = {} /\ resume = {} /\ recheck = {} /\ delete = {} /\ skip_blacklist = {}
    /\ change_priority = << >>
    /\ import_torrents = << >>
    /\ sent_to_scan = {} /\ sent_to_scan_hashes = {}
    /\ needs_cleanup = FALSE
    /\ timed_ignore_cache = {} /\ timed_skip = {}
    /\ name_cache = {}
    /\ qbit_cache \in SupervisorCaches
    /\ fired = << >>
    /\ effects = << >>
    /\ failures = 0
    /\ should_delay_torrent_scan = FALSE /\ delay = NoDelay
    /\ scan_posts = [h \in Hashes |-> << 0, 0 >>]
    /\ failed_T = {} /\ failed_skip = {} /\ torrents = << >>
    /\ probe = NoTorrent
    /\ SearchOff
    /\ BuildOff

Init == InitTorrent

Next ==
    \/ ApiCallsNoConnection
    \/ RefreshDownloadQueue
    \/ ClassifyTorrents
    \/ process
    \/ Sleep
    \/ DelayLoop
    \/ DelaySleep
    \/ Expire

vars == << torrent_vars, search_vars, build_vars >>

Spec == Init /\ [][Next]_vars

SearchSpec == SearchInit /\ [][SearchNext]_vars

BuildSpec == BuildInit /\ [][BuildNext]_vars

StoreSpec == StoreInit /\ [][Next]_vars


\* the start of a full tick: the checks of run_torrent_loop and process_torrents
\* passed and the snapshot is about to be fetched
TickStarts ==
    \/ RefreshDownloadQueue
    \/ pc = "idle" /\ ClassifyTorrents

\* the torrent loop keeps taking steps, and the client, the internet and the
\* manager are not down for ever: a tick that can start again and again does
LoopSpec == Init /\ [][Next]_vars /\ WF_vars(Next) /\ SF_vars(TickStarts)

\* the same loop over a supervisor cache other reconcilers have written
SharedCacheSpec ==
    SharedCacheInit /\ [][Next]_vars /\ WF_vars(Next) /\ SF_vars(TickStarts)

\* the search worker is a process of its own that runs `while True`: each step
\* of the loop that can be taken is taken
LiveSearchSpec ==
    /\ LiveSearchInit
    /\ [][SearchNext]_vars
    /\ WF_vars(db_update)
    /\ WF_vars(db_get_files)
    /\ WF_vars(maybe_do_search)
    /\ WF_vars(sleep_and_retry)
    /\ WF_vars(advance_year)

-----------------------------------------------------------------------------
(* Properties of the reconciler                                            *)

\* the step of Arr.process an effect belongs to, in the order of section 4.1
StepOf(op) ==
    CASE op = "torrents_pause" -> 1
      [] op \in {"torrents_recheck", "torrents_set_category"} -> 2
      [] op = "torrents_file_priority" -> 3
      [] op = "DownloadedEpisodesScan" -> 4
      [] op \in {"delete_from_queue", "EpisodeSearch", "MoviesSearch", "torrents_delete"} -> 5
      [] op = "torrents_resume" -> 6
      [] OTHER -> 7

HashesOf(k) == { it.hash : it \in effects[k].items }

\* C1: when a flush of a regular reconciler has run to its end, the effects it
\* issued are in the order pause, recheck, file priority, scan, delete, resume,
\* folder cleanup, and every hash of the resume set has been resumed.
C1_FlushOrder ==
    (IsArr /\ pc = "done") =>
        /\ \A i, j \in DOMAIN effects : i < j => StepOf(effects[i].op) <= StepOf(effects[j].op)
        /\ \A h \in resume :
              \E k \in DOMAIN effects : effects[k].op = "torrents_resume" /\ h \in HashesOf(k)

FlushPcs == {"paused", "errored", "priority", "imports", "failed", "cleanup", "done"}

IntentSetsOf(h) ==
    { n \in {"pause", "resume", "recheck", "delete"} :
        \/ n = "pause" /\ h \in pause
        \/ n = "resume" /\ h \in resume
        \/ n = "recheck" /\ h \in recheck
        \/ n = "delete" /\ h \in delete \cup skip_blacklist }

\* C2: after classification and during the flush, in a worker none of whose
\* calls has raised, a hash is in at most one of pause, resume, recheck and
\* delete \cup skip_blacklist.
C2_IntentsDisjoint ==
    (failures = 0 /\ pc \in FlushPcs) =>
        \A h \in AllHashes : Cardinality(IntentSetsOf(h)) <= 1

MentionedInEffects(h) ==
    \E k \in DOMAIN effects : \E it \in effects[k].items : h \in {it.hash, it.key}

C5_OnlyGrows == [][sent_to_scan_hashes \subseteq sent_to_scan_hashes']_vars

FoundFolderEmpty ==
    /\ effects # << >>
    /\ effects[Len(effects)].op = "folder_cleanup"
    /\ \E it \in effects[Len(effects)].items : it.flag

\* C5 amended: a step either keeps every member of sent_to_scan_hashes or is the
\* folder cleanup that found the completed folder empty and leaves the set empty.
C5_GrowsUntilReset ==
    [][\/ sent_to_scan_hashes \subseteq sent_to_scan_hashes'
       \/ pc = "cleanup" /\ sent_to_scan_hashes' = {} /\ FoundFolderEmpty']_vars

C5_Witness ==
    /\ pc = "done" /\ FoundFolderEmpty
    /\ sent_to_scan_hashes = {} /\ scan_posts["h1"][2] >= 1

\* C6 as stated: over the life of the process the scan command is posted at
\* most once for a hash.
C6_OncePerLifetime == \A h \in Hashes : scan_posts[h][2] <= 1

\* C6 amended: between two resets of sent_to_scan_hashes the scan command is
\* posted at most once for a hash.
C6_OncePerReset == \A h \in Hashes : scan_posts[h][1] <= 1

C6_Witness == scan_posts["h1"] = << 1, 2 >>

\* C11: every manager queue deletion of _process_failed is issued with
\* removeFromClient true and with blocklist true exactly when the upper-cased
\* hash is not the upper case of a member of skip_blacklist.
C11_BlocklistFlag ==
    \A k \in DOMAIN effects :
        effects[k].op = "delete_from_queue" =>
            \A it \in effects[k].items :
                /\ it.removeFromClient
                /\ it.hash = upper(it.key)
                /\ it.flag = (it.hash \notin { upper(i) : i \in failed_skip })

C11_Witness ==
    /\ pc = "cleanup" /\ failed_skip = {"H1"} /\ failed_T = {"H1"}
    /\ \E k \in DOMAIN effects :
          /\ effects[k].op = "delete_from_queue"
          /\ \E it \in effects[k].items : ~it.flag /\ it.id = QueueIdOf("H1")

C11_WitnessBlocklisted ==
    /\ pc = "cleanup" /\ failed_skip = {} /\ failed_T = {"h1"}
    /\ \E k \in DOMAIN effects :
          /\ effects[k].op = "delete_from_queue"
          /\ \E it \in effects[k].items : it.flag

QueueDeletionsOf(h) ==
    { it \in UNION { effects[k].items :
                        k \in { j \in DOMAIN effects : effects[j].op = "delete_from_queue" } } :
        it.hash = upper(h) }

\* C12 (its last sentence): in a worker none of whose calls has raised, a
\* torrent that a regular reconciler sees in state MISSING_FILES is not removed
\* from the manager queue with blocklist = true in that tick.
C12_MissingFilesNeverBlocklisted ==
    (IsArr /\ failures = 0) =>
        \A k \in DOMAIN torrents :
            torrents[k].state_enum = "MISSING_FILES" =>
                \A it \in QueueDeletionsOf(torrents[k].hash) : ~it.flag

\* what C13 says of the torrent t of the snapshot
C13_Rule11(t) ==
    LET h == t.hash
        old == t.added_on < time_now - ignore_torrents_younger_than
    IN (IsArr /\ h \in DOMAIN fired /\ fired[h] = {11}) =>
        /\ pc \in FlushPcs => h \in timed_skip
        /\ pc = "paused" => (old => h \in delete) /\ (failures = 0 /\ h \in delete => old)
        /\ (pc \in {"cleanup", "done"} /\ old /\ upper(h) \in DOMAIN cache) =>
              /\ QueueDeletionsOf(h) # {}
              /\ \A it \in QueueDeletionsOf(h) : it.flag /\ it.id = cache[upper(h)]
              /\ \E k \in DOMAIN effects :
                    /\ effects[k].op = "torrents_delete"
                    /\ \E it \in effects[k].items : it.hash = h /\ it.flag

MarkedIds(files) ==
    { files[j].id : j \in { i \in DOMAIN files : files[i].priority # 0 /\ files[i].mark # "ok" } }

WantedIds(files) ==
    { files[j].id : j \in { i \in DOMAIN files : files[i].priority # 0 /\ files[i].mark = "ok" } }

\* C14: after file filtering of a downloading torrent whose hash was not yet in
\* change_priority and of which a file stays wanted, change_priority[hash] is
\* the set of the ids of all the marked files, and the hash is not in delete.
C14_AllMarkedRecorded ==
    \A k \in DOMAIN torrents :
        LET t == torrents[k] IN
        ( /\ IsArr /\ pc = "paused" /\ failures = 0
          /\ t.hash \in DOMAIN fired /\ fired[t.hash] = {14}
          /\ t.added_on >= time_now - ignore_torrents_younger_than
          /\ MarkedIds(t.files) # {} /\ WantedIds(t.files) # {} ) =>
            /\ t.hash \in DOMAIN change_priority
            /\ change_priority[t.hash] = MarkedIds(t.files)
            /\ t.hash \notin delete

\* C20: every hash the classifier adds to resume (rule 10) is passed to the
\* client's bulk resume in the flush of the same tick and added to
\* timed_ignore_cache, and resume is empty when the flush ends.
C20_ResumeFlushed ==
    (IsArr /\ pc = "done" /\ failures = 0) =>
        /\ \A h \in DOMAIN fired :
              fired[h] = {10} =>
                  /\ \E k \in DOMAIN effects :
                        effects[k].op = "torrents_resume" /\ h \in HashesOf(k)
                  /\ h \in timed_ignore_cache
        /\ resume = {}

\* the re-search of a queue entry raised in this tick (the detail lookup or the
\* search command): its queue deletion is the last effect of _process_failed
ReSearchRaised ==
    \E k \in DOMAIN effects :
        /\ effects[k].op = "delete_from_queue"
        /\ \E it \in effects[k].items : it.id \in DOMAIN requeue_cache
        /\ ~(k + 1 \in DOMAIN effects
               /\ effects[k + 1].op \in {"MoviesSearch", "EpisodeSearch"})

\* C24: in _process_failed a failed queue delete or a failed detail lookup for
\* one entry only skips that entry: the client is still asked to delete all the
\* hashes of T and the flush goes on.
C24_EntryFailureIsolated ==
    (IsArr /\ failed_T # {} /\ ReSearchRaised) =>
        /\ pc # "raised"
        /\ \E k \in DOMAIN effects :
              effects[k].op = "torrents_delete" /\ HashesOf(k) = failed_T

\* the year of the entry lies between the year the loop starts at and its
\* stopping year
InSweep(e) ==
    IF config.search_in_reverse
    THEN count_start <= entry_year[e] /\ entry_year[e] <= stopping_year
    ELSE stopping_year <= entry_year[e] /\ entry_year[e] <= count_start

\* C25: without errors and with room under the command limit again and again,
\* every catalog entry that stays missing and whose year lies in the sweep is
\* eventually upserted into the local store and gets its pending-search row and
\* search command.
C25_MissingEventuallySearched ==
    \A e \in Entries :
        ( /\ InSweep(e)
          /\ [](arr_file[e] = 0)
          /\ []<>(commands < config.search_command_limit) )
            => <>(e \in DOMAIN model_file /\ e \in DOMAIN model_queue)

\* the requests that change a torrent in the client
ClientMutations ==
    {"torrents_pause", "torrents_resume", "torrents_recheck", "torrents_file_priority",
     "torrents_delete"}

\* C26: every hash a regular reconciler passes to a client mutation in a tick
\* is the hash (in either case) of a torrent of the snapshot of that tick, also
\* after a tick whose flush ended with an error.
C26_MutatedInSnapshot ==
    IsArr =>
        \A k \in DOMAIN effects :
            effects[k].op \in ClientMutations =>
                { upper(h) : h \in HashesOf(k) }
                    \subseteq { upper(torrents[i].hash) : i \in DOMAIN torrents }

\* C27: no step of a torrent tick (classification, flush, folder cleanup)
\* changes the local Files table or the pending-search table.
C27_TickLeavesStore ==
    [][ /\ model_file' = model_file
        /\ searched' = searched
        /\ model_queue' = model_queue ]_vars

\* a whole tick that re-searched an entry, over a store that holds rows
C27_Witness ==
    /\ IsArr /\ pc = "done"
    /\ model_file # << >> /\ model_queue # << >>
    /\ \E k \in DOMAIN effects : effects[k].op \in {"MoviesSearch", "EpisodeSearch"}

\* the rows of the entry with completed = False
IncompleteRows(e) ==
    IF e \in DOMAIN model_queue
    THEN { i \in DOMAIN model_queue[e] : ~model_queue[e][i] }
    ELSE {}

\* C28: the scheduler inserts a pending row and posts a search command for an
\* entry only when no row with completed = False exists for it; hence an entry
\* never has two pending rows with completed = False.
C28_OneIncompleteRow ==
    /\ [](\A e \in Entries : Cardinality(IncompleteRows(e)) <= 1)
    /\ [][(spc = "search" /\ idx <= Len(candidates)
             /\ (posts' # posts \/ model_queue' # model_queue))
            => IncompleteRows(candidates[idx]) = {}]_vars

\* a pass went by an entry that has an open row without posting, and posted for
\* another one
C28_Witness ==
    /\ spc = "search" /\ idx > Len(candidates) /\ Len(candidates) = 2
    /\ posts = 1
    /\ candidates[1] \in queued_at_start
    /\ \A e \in Entries : Cardinality(IncompleteRows(e)) = 1

\* C29: after a db_update over the year window every pending row of an entry
\* the window selects and that has a file in the catalog is completed, and no
\* pending row ever goes back from completed to not completed.
C29_CompletedRowsStay ==
    /\ [][(spc = "db_update" /\ spc' = "files") =>
            \A e \in Entries :
                (InWindow(e, search_current_year) /\ arr_file[e] # 0
                 /\ e \in DOMAIN model_queue') =>
                    \A i \in DOMAIN model_queue'[e] : model_queue'[e][i]]_vars
    /\ [][\A e \in DOMAIN model_queue :
            /\ e \in DOMAIN model_queue'
            /\ \A i \in DOMAIN model_queue[e] :
                  model_queue[e][i] =>
                      i \in DOMAIN model_queue'[e] /\ model_queue'[e][i]]_vars

\* db_update has just marked the row of an entry that got its file, in a year
\* that keeps another candidate
C29_Witness ==
    /\ spc = "files"
    /\ \E e \in Entries :
         /\ InWindow(e, search_current_year) /\ arr_file[e] # 0
         /\ e \in DOMAIN model_queue /\ model_queue[e] = << TRUE >>
         /\ \E x \in Entries \ {e} :
              /\ InWindow(x, search_current_year) /\ arr_file[x] = 0
              /\ x \in DOMAIN model_queue /\ model_queue[x] = << FALSE >>

\* C30: at the start of the classification of every tick pause, resume, recheck,
\* delete, skip_blacklist, change_priority and import_torrents are all empty,
\* whatever happened in earlier ticks.
C30_IntentsRebuilt ==
    (pc = "classify" \/ (pc = "idle" /\ ~IsArr)) =>
        /\ pause = {} /\ resume = {} /\ recheck = {}
        /\ delete = {} /\ skip_blacklist = {}
        /\ change_priority = << >>
        /\ import_torrents = << >>

\* what a tick may change besides its position: the intents, the caches, the
\* sent records and the calls it made
TickState ==
    << cache, requeue_cache, pause, resume, recheck, delete, skip_blacklist,
       change_priority, import_torrents, sent_to_scan, sent_to_scan_hashes,
       needs_cleanup, timed_ignore_cache, timed_skip, name_cache, qbit_cache,
       scan_posts, failures >>

\* C31: when the health probe of the manager fails at the start of a tick the
\* tick is skipped: nothing is classified, no call is made, every intent set and
\* cache is left as it was, and the worker goes on to the next tick.
C31_NoConnectionSkipsTick ==
    /\ [](pc = "no_connection" => effects = << >> /\ fired = << >> /\ torrents = << >>)
    /\ [][(pc' = "no_connection" \/ pc = "no_connection") =>
            /\ UNCHANGED TickState
            /\ effects' = << >>
            /\ pc = "no_connection" => pc' = "idle"]_vars

\* a skipped tick of a reconciler that holds a stale intent and cache entries
C31_Witness ==
    /\ pc = "no_connection"
    /\ pause # {} /\ name_cache # {}

\* the scan commands the step posts for the hash h
NewScansOf(h) ==
    { k \in DOMAIN effects' \ DOMAIN effects :
        effects'[k].op = "DownloadedEpisodesScan"
        /\ \E it \in effects'[k].items : it.key = h }

\* C33: _process_imports, for a torrent whose content path does not exist,
\* posts no scan, records neither hash nor path as sent and puts the upper-cased
\* hash into skip_blacklist (every queued torrent is either treated so, or has
\* its path sent already, or is scanned and recorded); the _process_failed of
\* the same tick then deletes that hash from the client and removes its queue
\* entry with blocklist = false.
C33_MissingPathDropped ==
    /\ [][(pc = "imports" /\ pc' = "failed") =>
            \A k \in DOMAIN import_torrents :
                LET h == import_torrents[k].hash
                    path == PathOf(import_torrents[k].content_path)
                IN h \notin sent_to_scan =>
                     \/ /\ upper(h) \in skip_blacklist'
                        /\ NewScansOf(h) = {}
                        /\ h \notin sent_to_scan_hashes' \ sent_to_scan_hashes
                        /\ path \notin sent_to_scan' \ sent_to_scan
                     \/ path \in sent_to_scan /\ NewScansOf(h) = {}
                     \/ /\ NewScansOf(h) # {}
                        /\ h \in sent_to_scan_hashes' /\ path \in sent_to_scan']_vars
    /\ [](\A h \in Hashes :
            (IsArr /\ pc \in {"cleanup", "done"} /\ upper(h) \in failed_skip) =>
                /\ \E k \in DOMAIN effects :
                      /\ effects[k].op = "torrents_delete"
                      /\ \E it \in effects[k].items : it.hash = upper(h) /\ it.flag
                /\ upper(h) \in DOMAIN cache =>
                      /\ QueueDeletionsOf(h) # {}
                      /\ \A it \in QueueDeletionsOf(h) : ~it.flag)

\* a tick without a raised call dropped an import whose path is gone: no scan
\* was ever posted for it, it was deleted and its queue entry removed unblocklisted
C33_Witness ==
    /\ IsArr /\ pc = "done" /\ failures = 0
    /\ failed_skip = {"H1"}
    /\ sent_to_scan_hashes = {} /\ sent_to_scan = {}
    /\ \A k \in DOMAIN effects : effects[k].op # "DownloadedEpisodesScan"
    /\ \E it \in QueueDeletionsOf("h1") : ~it.flag
    /\ \E k \in DOMAIN effects : effects[k].op = "torrents_delete"

\* C34: a torrent that reaches rule 8 is added to pause and queued for import;
\* when its path exists and neither hash nor path was sent, the flush of the
\* same tick pauses it first, then posts exactly one scan command with the path,
\* the upper-cased hash and the import mode, and records hash and path as sent.
C34_CompletedImported ==
    /\ [](\A h \in Hashes :
            (IsArr /\ pc = "paused" /\ h \in DOMAIN fired /\ fired[h] = {8}) =>
                /\ h \in pause
                /\ \E k \in DOMAIN import_torrents : import_torrents[k].hash = h)
    /\ [][(IsArr /\ pc = "imports" /\ pc' = "failed") =>
            \A h \in { x \in DOMAIN fired : fired[x] = {8} } :
                LET path == PathOf(ContentPathOf(h))
                IN (/\ h \notin sent_to_scan_hashes /\ path \notin sent_to_scan
                    /\ upper(h) \notin skip_blacklist') =>
                      /\ Cardinality(NewScansOf(h)) = 1
                      /\ \A k \in NewScansOf(h) :
                            /\ effects'[k].items =
                                  { [ hash |-> upper(h), id |-> 0, flag |-> FALSE, key |-> h,
                                      path |-> path, importMode |-> "Move" ] }
                            /\ \E j \in 1..(k - 1) :
                                  /\ effects'[j].op = "torrents_pause"
                                  /\ \E it \in effects'[j].items : it.hash = h
                      /\ h \in sent_to_scan_hashes' /\ path \in sent_to_scan']_vars

\* a completed torrent was paused and then scanned once in its tick
C34_Witness ==
    /\ IsArr /\ pc = "failed" /\ failures = 0
    /\ "h1" \in DOMAIN fired /\ fired["h1"] = {8}
    /\ Len(effects) = 2
    /\ effects[1].op = "torrents_pause" /\ effects[2].op = "DownloadedEpisodesScan"
    /\ sent_to_scan_hashes = {"h1"} /\ sent_to_scan = {"p1"}

\* C35: file filtering (of a torrent too young for the availability test of the
\* branch) adds the hash to delete exactly when total (the number
\* of files less the marked ones among those with priority # 0) is 0 after the
\* scan, and then records no change_priority entry for the hash: the hash is
\* never left in both delete and change_priority.
C35_DeleteOrPriority ==
    \A k \in DOMAIN torrents :
        LET h == torrents[k].hash
            files == torrents[k].files
            total == Len(files) - Cardinality(MarkedIds(files))
        IN (IsArr /\ failures = 0 /\ pc = "paused"
            /\ h \in DOMAIN fired /\ fired[h] = {14}
            /\ torrents[k].added_on >= time_now - ignore_torrents_younger_than) =>
              /\ h \in delete <=> total = 0
              /\ h \in delete => h \notin DOMAIN change_priority

\* the calls a step appends to the history
NewCalls == DOMAIN effects' \ DOMAIN effects

\* a placeholder's _process_errored returning without a raised call
PlaceHolderRechecks ==
    /\ pc = "errored" /\ ~IsArr /\ recheck # {}
    /\ pc' = "failed" /\ failures' = failures

\* C36 as stated: every hash a placeholder rechecks has its category set back
\* after the recheck call
C36_RecheckedSetBack ==
    [][PlaceHolderRechecks =>
         \A h \in recheck :
             \E k \in NewCalls :
                 /\ effects'[k].op = "torrents_set_category"
                 /\ \E it \in effects'[k].items : it.hash = h]_vars

\* C36 (amended): a placeholder rechecks every hash of `recheck` in one call;
\* the hashes the supervisor cache has a category for are then set back to that
\* category, which is never RECHECK_CATEGORY, and such a hash is eventually set
\* back once the calls stop failing; a hash the cache does not know is rechecked
\* and left in the recheck category
C36_RecheckedSetBackWhenKnown ==
    /\ [](\A h \in DOMAIN qbit_cache : qbit_cache[h] # RECHECK_CATEGORY)
    /\ [][PlaceHolderRechecks =>
            \E r \in NewCalls :
                /\ effects'[r].op = "torrents_recheck"
                /\ { it.hash : it \in effects'[r].items } = recheck
                /\ \A k \in NewCalls \ {r} :
                       /\ k > r
                       /\ effects'[k].op = "torrents_set_category"
                /\ \A h \in recheck :
                       LET back == { k \in NewCalls \ {r} :
                                       \E it \in effects'[k].items : it.hash = h }
                       IN IF h \in DOMAIN qbit_cache
                          THEN /\ Cardinality(back) = 1
                               /\ \A k \in back : \A it \in effects'[k].items :
                                      it.hash = h => it.key = qbit_cache[h]
                          ELSE back = {}]_vars
    /\ \A h \in Hashes :
           (~IsArr /\ h \in recheck /\ h \in DOMAIN qbit_cache)
             ~> (\E k \in DOMAIN effects :
                    /\ effects[k].op = "torrents_set_category"
                    /\ \E it \in effects[k].items :
                           it.hash = h /\ it.key = qbit_cache[h])

C36_Witness ==
    /\ kind = "recheck" /\ pc = "failed" /\ recheck = {}
    /\ Len(effects) = 2
    /\ effects[1].op = "torrents_recheck"
    /\ effects[2] = Effect("torrents_set_category", {Item("h1", 0, FALSE, OWN_CATEGORY)})

\* the positions of the calls of the run of _process_failed just returned that
\* were issued for the member h of T
CallsFor(op, h) ==
    { k \in DOMAIN effects : effects[k].op \in op /\ \E it \in effects[k].items : it.key = h }

\* C37: in a run of _process_failed that returned, each member of T the cache
\* resolves to a queue id with a requeue_cache entry has one queue deletion
\* followed by exactly one re-search, EpisodeSearch with all the episode ids of
\* the queue id or MoviesSearch with the one movie id; a hash the cache does not
\* resolve has no queue deletion and no re-search, and is in the torrents_delete
C37_ReSearchAfterQueueDeletion ==
    (IsArr /\ pc = "cleanup" /\ failed_T # {}) =>
        \A h \in failed_T :
            LET H == upper(h)
                dels == CallsFor({"delete_from_queue"}, h)
                srch == CallsFor({"MoviesSearch", "EpisodeSearch"}, h)
            IN /\ \E k \in DOMAIN effects :
                      /\ effects[k].op = "torrents_delete"
                      /\ \E it \in effects[k].items : it.hash = h /\ it.flag
               /\ IF H \in DOMAIN cache
                  THEN /\ Cardinality(dels) = 1
                       /\ \A d \in dels : \A it \in effects[d].items :
                              it.id = cache[H] /\ it.hash = H
                       /\ IF cache[H] \in DOMAIN requeue_cache
                          THEN /\ Cardinality(srch) = 1
                               /\ \A d \in dels : \A k \in srch :
                                      /\ k = d + 1
                                      /\ effects[k].op = IF kind = "sonarr" THEN "EpisodeSearch"
                                                         ELSE "MoviesSearch"
                                      /\ \A it \in effects[k].items :
                                             it.ids = IF kind = "sonarr"
                                                      THEN requeue_cache[cache[H]]
                                                      ELSE << requeue_cache[cache[H]] >>
                          ELSE srch = {}
                  ELSE dels = {} /\ srch = {}

C37_Witness ==
    /\ kind = "sonarr" /\ pc = "cleanup" /\ failed_T = {"h1"}
    /\ "H1" \in DOMAIN cache /\ cache["H1"] \in DOMAIN requeue_cache
    /\ Len(requeue_cache[cache["H1"]]) = 2
    /\ CallsFor({"EpisodeSearch"}, "h1") # {}

\* C38: an iteration that finds the client or the internet down classifies and
\* flushes nothing, sleeps 300 s (client) or NO_INTERNET_SLEEP_TIMER (internet),
\* leaves the delay flag false after the sleep, and is followed by a full tick
\* once the checks pass again
C38_DelayIsTransient ==
    /\ [](pc = "delay" =>
            /\ effects = << >> /\ fired = << >> /\ torrents = << >>
            /\ delay.type \in {"qbit", "internet", "delay"}
            /\ delay.length = IF delay.type = "qbit" THEN 300 ELSE NO_INTERNET_SLEEP_TIMER)
    /\ [](pc # "delay" => ~should_delay_torrent_scan)
    /\ [][(pc' = "delay" \/ pc = "delay") =>
            /\ UNCHANGED TickState
            /\ effects' = << >>
            /\ pc = "delay" => pc' = "idle" /\ ~should_delay_torrent_scan']_vars
    /\ (pc = "delay") ~> (pc \in {"classify", "errored"})

C38_Witness ==
    /\ pc = "delay" /\ delay.type = "internet" /\ should_delay_torrent_scan
    /\ pause # {} /\ name_cache # {}

\* C39: when the search command of maybe_do_search is not posted because the
\* request raised, no pending row with completed = False is left for the entry
C39_FailedPostLeavesNoRow ==
    [][(spc = "search" /\ idx <= Len(candidates) /\ failures' = failures + 1) =>
         LET e == candidates[idx]
         IN \/ e \notin DOMAIN model_queue'
            \/ \A i \in DOMAIN model_queue'[e] : model_queue'[e][i]]_vars

-----------------------------------------------------------------------------
(* The classifier alone, over the whole range of its inputs                 *)

\* the torrents the classifier may be handed: every state, every category it
\* tests, and each numeric field on both sides of the thresholds it is compared to
Probes ==
    { [ hash |-> "h1", category |-> c, state_enum |-> s, progress |-> p,
        last_activity |-> la, added_on |-> ao, amount_left |-> al,
        content_path |-> cp, completion_on |-> co, seeding_time |-> sd,
        eta |-> e, availability |-> av, files |-> << File(0, 1, "ok") >> ] :
        c \in {OWN_CATEGORY, FAILED_CATEGORY, RECHECK_CATEGORY},
        s \in TorrentStates,
        p \in {10, 97, 100},
        la \in {time_now - 90000, time_now - 5},
        ao \in {0, time_now - 3600, time_now - 60},
        al \in {0, 1},
        cp \in {"", "p1"},
        co \in {time_now - 60, time_now - 5},
        sd \in {0, 60},
        e \in {100, 90000},
        av \in {50, 100} }

\* a worker about to classify one torrent: the hash may be in one of the sets
\* the classifier reads
ClassifierInit ==
    /\ kind = "sonarr"
    /\ config \in { d \in SearchConfigs :
                       /\ ~d.search_in_reverse /\ d.search_command_limit = 1
                       /\ d.search_starting_year = d.search_ending_year }
    /\ pc = "probe"
    /\ probe \in Probes
    /\ \E where \in {"none", "timed_ignore_cache", "timed_skip", "sent_to_scan_hashes"} :
         /\ timed_ignore_cache = IF where = "timed_ignore_cache" THEN {"h1"} ELSE {}
         /\ timed_skip = IF where = "timed_skip" THEN {"h1"} ELSE {}
         /\ sent_to_scan_hashes = IF where = "sent_to_scan_hashes" THEN {"h1"} ELSE {}
    /\ sent_to_scan = { ContentPathOf(h) : h \in sent_to_scan_hashes }
    /\ should_delay_torrent_scan = FALSE /\ delay = NoDelay
    /\ scan_posts = [h \in Hashes |-> IF h \in sent_to_scan_hashes THEN << 1, 1 >>
                                      ELSE << 0, 0 >>]
    /\ cache = << >>
    /\ requeue_cache = << >>
    /\ pause = {} /\ resume = {} /\ recheck = {} /\ delete = {} /\ skip_blacklist = {}
    /\ change_priority = << >>
    /\ import_torrents = << >>
    /\ needs_cleanup = FALSE
    /\ name_cache = {}
    /\ qbit_cache = << >>
    /\ fired = << >>
    /\ effects = << >>
    /\ failures = 0
    /\ failed_T = {} /\ failed_skip = {} /\ torrents = << >>
    /\ SearchOff
    /\ BuildOff

\* one iteration of the loop of Arr.process_torrents, on the probe
ClassifyProbe ==
    /\ pc = "probe"
    /\ Commit(Classify1([Intents EXCEPT !.fired = << >>], probe))
    /\ pc' = "classified"
    /\ torrents' = Seen(<< probe >>)
    /\ UNCHANGED << build_vars, search_vars, kind, should_delay_torrent_scan, delay, config, failed_T, failed_skip, cache, requeue_cache, sent_to_scan,
                    sent_to_scan_hashes, needs_cleanup, timed_ignore_cache, effects,
                    failures, scan_posts, probe >>

ClassifierNext == ClassifyProbe

ClassifierSpec == ClassifierInit /\ [][ClassifierNext]_vars

\* C32: a torrent of the reconciler's own category in one of the seven ignored
\* states is added to no intent set, to no TTL cache and not to the import list,
\* whatever its progress, age, eta and availability.
C32_IgnoredStateUntouched ==
    [][(/\ pc = "probe"
        /\ probe.category = OWN_CATEGORY
        /\ probe.state_enum \in {"FORCED_DOWNLOAD", "FORCED_UPLOAD", "CHECKING_UPLOAD",
                                 "CHECKING_DOWNLOAD", "CHECKING_RESUME_DATA",
                                 "ALLOCATING", "MOVING"})
        => /\ UNCHANGED << pause, resume, recheck, delete, skip_blacklist,
                           change_priority, import_torrents,
                           timed_ignore_cache, timed_skip >>
           /\ fired' = [h \in {probe.hash} |-> {3}]]_vars

\* a forced upload that is complete and old enough for rule 8 has been skipped
C32_Witness ==
    /\ pc = "classified"
    /\ probe.category = OWN_CATEGORY /\ probe.state_enum = "FORCED_UPLOAD"
    /\ probe.progress = 100 /\ probe.amount_left = 0 /\ probe.added_on > 0
    /\ probe.completion_on < time_now - 30 /\ probe.content_path # ""
    /\ fired = [h \in {"h1"} |-> {3}]
    /\ pause = {} /\ import_torrents = << >>

\* a worker about to run folder_cleanup at the end of a flush, over any contents
\* of the completed folder
CleanupInit ==
    /\ kind \in {"sonarr", "radarr"}
    /\ config \in { [d EXCEPT !.auto_delete = a] :
                       a \in BOOLEAN,
                       d \in { c \in SearchConfigs :
                                 /\ ~c.search_in_reverse /\ c.search_command_limit = 1
                                 /\ c.search_starting_year = c.search_ending_year } }
    /\ pc = "cleanup"
    /\ probe = NoTorrent
    /\ needs_cleanup \in BOOLEAN
    /\ sent_to_scan \in SUBSET CleanupPaths
    /\ sent_to_scan_hashes \in SUBSET Hashes
    /\ should_delay_torrent_scan = FALSE /\ delay = NoDelay
    /\ scan_posts = [h \in Hashes |-> IF h \in sent_to_scan_hashes THEN << 1, 1 >>
                                      ELSE << 0, 0 >>]
    /\ timed_ignore_cache = {} /\ timed_skip = {}
    /\ cache = << >>
    /\ requeue_cache = << >>
    /\ pause = {} /\ resume = {} /\ recheck = {} /\ delete = {} /\ skip_blacklist = {}
    /\ change_priority = << >>
    /\ import_torrents = << >>
    /\ name_cache = {}
    /\ qbit_cache = << >>
    /\ fired = << >>
    /\ effects = << >>
    /\ failures = 0
    /\ failed_T = {} /\ failed_skip = {} /\ torrents = << >>
    /\ SearchOff
    /\ BuildOff

\* what folder_cleanup found at the paths and did to them: was_sent is the
\* membership of the path in sent_to_scan before, flag whether it was removed
CleanupLog(fs) ==
    Effect("cleanup_paths",
           { [ hash |-> "", id |-> 0, key |-> p, entry |-> fs[p],
               was_sent |-> p \in sent_to_scan,
               flag |-> Unlinked(fs[p]) \/ p \in RemovedFolders(AfterUnlink(fs)) ] :
               p \in { q \in DOMAIN fs : fs[q].kind # "none" } })

\* folder_cleanup on one completed folder
CleanupFolder ==
    /\ pc = "cleanup"
    /\ pc' = "done"
    /\ IF ~config.auto_delete \/ ~needs_cleanup
       THEN UNCHANGED << sent_to_scan, sent_to_scan_hashes, needs_cleanup, effects, scan_posts >>
       ELSE \E fs \in AllFsSnapshots : FolderCleanupBody(fs, << CleanupLog(fs) >>)
    /\ UNCHANGED << build_vars, search_vars, kind, should_delay_torrent_scan, delay, config, failed_T, failed_skip, torrents, cache, requeue_cache, pause, resume, recheck, delete,
                    skip_blacklist, change_priority, import_torrents, timed_ignore_cache,
                    timed_skip, name_cache, qbit_cache, fired, failures, probe >>

CleanupNext == CleanupFolder

CleanupSpec == CleanupInit /\ [][CleanupNext]_vars

CleanupItems == UNION { effects[k].items : k \in { j \in DOMAIN effects : effects[j].op = "cleanup_paths" } }

\* C18 as stated: folder cleanup removes a file exactly when its extension is
\* not in the allowlist or its media probe fails, and removes no folder that
\* still contains entries.
C18_RemovedIffDisallowed ==
    \A it \in CleanupItems :
        /\ it.entry.kind = "file" =>
              (it.flag <=> \/ Suffix(it.entry.name) \notin file_extension_allowlist
                           \/ it.entry.probe \in {"empty", "error"})
        /\ it.entry.kind = "dir_full" => ~it.flag

\* C18 amended: folder cleanup removes a file exactly when it is not named
\* desktop.ini or .DS_Store, its extension is not in the allowlist or its media
\* probe fails, and its removal raises no PermissionError; it removes no folder
\* that still contains entries, and every folder that contains none.
C18_RemovedIffDisallowedAndFree ==
    \A it \in CleanupItems :
        /\ it.entry.kind = "file" =>
              (it.flag <=> /\ it.entry.name \notin {"desktop.ini", ".DS_Store"}
                           /\ \/ Suffix(it.entry.name) \notin file_extension_allowlist
                              \/ it.entry.probe \in {"empty", "error"}
                           /\ ~it.entry.locked)
        /\ it.entry.kind = "dir_full" => ~it.flag
        /\ it.entry.kind = "dir_empty" => it.flag

C18_Witness ==
    /\ pc = "done"
    /\ \E it \in CleanupItems :
          it.entry.kind = "file" /\ it.entry.name = "a.mkv" /\ it.entry.probe = "error" /\ it.flag
    /\ \E it \in CleanupItems : it.entry.kind = "dir_full" /\ ~it.flag

C18_WitnessKept ==
    /\ pc = "done"
    /\ \E it \in CleanupItems :
          it.entry.kind = "file" /\ it.entry.name = "a.txt" /\ it.entry.locked /\ ~it.flag

\* C19 as stated: a folder that folder cleanup finds empty is removed, and after
\* the cleanup its path is not in sent_to_scan, whether it was before or not.
C19_RemovedFolderForgotten ==
    pc = "done" =>
        \A it \in CleanupItems :
            it.entry.kind = "dir_empty" => (it.flag /\ it.key \notin sent_to_scan)

\* C40: folder cleanup takes out of sent_to_scan only the paths of the folders
\* it removed: a path that was in it and whose file or folder is still there is
\* still in it, and a path that was not in it is not in it afterwards
C40_OnlyRemovedPathsForgotten ==
    pc = "done" =>
        \A it \in CleanupItems :
            /\ (it.was_sent /\ ~it.flag) => it.key \in sent_to_scan
            /\ ~it.was_sent => it.key \notin sent_to_scan

\* C3 as stated: exactly one branch of the classifier fires for a torrent.
C3_ExactlyOneBranch ==
    pc = "classified" => Cardinality(fired[probe.hash]) = 1

\* C3 amended: at most one branch of the classifier fires for a torrent, and
\* none fires exactly when no branch condition holds.
C3_AtMostOneBranch ==
    pc = "classified" =>
        /\ Cardinality(fired[probe.hash]) <= 1
        /\ (fired[probe.hash] = {}) <=>
              (\A i \in Branches : ~Cond(i, probe, [timed_skip |-> timed_skip]))

C3_Witness ==
    /\ pc = "classified" /\ fired[probe.hash] = {8}
    /\ probe.state_enum = "PAUSED_UPLOAD"

C3_WitnessNone ==
    /\ pc = "classified" /\ fired[probe.hash] = {}
    /\ probe.state_enum = "PAUSED_UPLOAD"

-----------------------------------------------------------------------------
(* Properties of the search loop                                            *)

Min(a, b) == IF a < b THEN a ELSE b
Max(a, b) == IF a > b THEN a ELSE b

\* C7 as stated: search_current_year lies in the range spanned by StartYear and
\* LastYear, in forward and in reverse mode.
C7_YearInConfiguredRange ==
    spc # "off" =>
        /\ search_current_year >= Min(config.search_starting_year, config.search_ending_year)
        /\ search_current_year <= Max(config.search_starting_year, config.search_ending_year)

\* C7 amended: whenever the loop reads it, search_current_year lies between the
\* year it started at and the stopping year of its mode, or one past the latter.
C7_YearInSweptRange ==
    spc # "off" =>
        IF config.search_in_reverse
        THEN /\ search_current_year >= config.search_ending_year
             /\ search_current_year <= Max(config.search_ending_year, NowYear) + 1
        ELSE /\ search_current_year <= config.search_starting_year
             /\ search_current_year >=
                   Min(config.search_starting_year, forward_stopping_year) - 1

C7_Witness ==
    /\ spc = "files" /\ config.search_in_reverse
    /\ search_current_year = NowYear + 1

C7_WitnessForward ==
    /\ spc = "files" /\ ~config.search_in_reverse
    /\ search_current_year = forward_stopping_year - 1

\* no year yields a search candidate: every entry has its file, in the manager
\* catalog and in the local table
NoCandidates ==
    /\ \A e \in Entries : arr_file[e] # 0
    /\ \A e \in DOMAIN model_file : model_file[e] # 0

\* C15 as stated: in reverse mode without candidates the year advances one at a
\* time and the (LastYear - StartYear + 1)-th advance resets it to LastYear, on
\* every pass.
C15_ResetAfterConfiguredSpan ==
    [][ (config.search_in_reverse /\ NoCandidates
            /\ search_current_year' # search_current_year) =>
          IF (search_current_year - config.search_ending_year) + 1
                = config.search_ending_year - config.search_starting_year + 1
          THEN search_current_year' = config.search_ending_year
          ELSE search_current_year' = search_current_year + 1 ]_vars

\* C15 amended: in reverse mode without candidates the year advances by one in
\* db_update and by one more at the end of the pass, and the advance that takes
\* it past the current calendar year resets it to LastYear, on every pass.
C15_ResetPastNow ==
    [][ (config.search_in_reverse /\ NoCandidates) =>
          /\ (spc = "db_update" /\ spc' = "files") =>
                search_current_year' = search_current_year + 1
          /\ (spc = "search" /\ spc' = "db_update") =>
                search_current_year' =
                    IF search_current_year + 1 > NowYear
                    THEN config.search_ending_year
                    ELSE search_current_year + 1
          /\ ~(spc = "db_update" /\ spc' = "files") /\ ~(spc = "search" /\ spc' = "db_update")
                => search_current_year' = search_current_year ]_vars

C15_Witness ==
    /\ config.search_in_reverse /\ NoCandidates
    /\ spc = "search" /\ candidates = << >>
    /\ search_current_year = NowYear + 1
    /\ DOMAIN model_file = Entries

C17_SearchedMonotonic ==
    [][ \A e \in DOMAIN searched :
          searched[e] => (e \in DOMAIN searched' /\ searched'[e]) ]_vars

\* a movie row upserted again after the movie lost its file: the file id went
\* back to 0, the flag stayed
C17_Witness ==
    /\ kind = "radarr" /\ spc = "files"
    /\ \E e \in DOMAIN searched :
          searched[e] /\ model_file[e] = 0 /\ arr_file[e] = 0

\* C23: no error raised inside an iteration ends a worker: the torrent worker
\* is never left by an exception, and neither is the search worker, whatever
\* step raised, db_update included.
C23_WorkerSurvives ==
    /\ pc \notin {"dead"}
    /\ spc \notin {"dead"}

\* C8 as stated: the search commands posted in a pass number at most
\* max(0, SearchLimit - active commands at the start of the pass) plus the
\* candidates already queued.
C8_PostsWithinStartBudget ==
    spc \in {"search", "sleep"} =>
        posts <= Max(0, config.search_command_limit - active_at_start)
                 + Cardinality(queued_at_start)

\* C8 amended: a search command is posted only when the active command count
\* just read is below SearchLimit, for a candidate without an incomplete pending
\* row, and a pass posts at most one command per candidate not queued at its start.
C8_PostsBelowLimit ==
    /\ [](spc \in {"search", "sleep"} =>
             posts <= Len(candidates) - Cardinality(queued_at_start))
    /\ [][posts' > posts =>
             /\ commands < config.search_command_limit
             /\ posts' = posts + 1
             /\ ~HasIncompleteRow(candidates[idx])
             /\ idx' = idx + 1]_vars

C8_Witness ==
    /\ spc = "search" /\ posts = 2 /\ config.search_command_limit = 1

FullAt ==
    /\ spc = "search" /\ idx <= Len(candidates)
    /\ ~HasIncompleteRow(candidates[idx])
    /\ commands >= config.search_command_limit

\* C9: a call of maybe_do_search for a candidate without an incomplete pending
\* row while the active command count is at least SearchLimit posts nothing and
\* inserts no row, and the loop stays at that candidate and that year, sleeping
\* and calling again, until a call does not report full.
C9_FullRetriesSameCandidate ==
    [][(FullAt \/ spc = "sleep") =>
          /\ posts' = posts
          /\ model_queue' = model_queue
          /\ idx' = idx /\ candidates' = candidates
          /\ search_current_year' = search_current_year
          /\ spc' \in {"search", "sleep"}
          /\ (spc = "sleep" /\ spc' = "search" => commands' = commands)]_vars

C9_Witness ==
    /\ spc = "sleep" /\ posts = 0 /\ idx = 2
    /\ commands >= config.search_command_limit

-----------------------------------------------------------------------------
(* Properties of build_arr_instances                                       *)

ConstructedNames == { constructed[i].name : i \in DOMAIN constructed }

\* the section has one of the configuration errors: its URI is the URI of a
\* reconciler constructed before it, its completed folder or a key is missing
ConfigError(k) ==
    \/ ~sections[k].folder_exists
    \/ sections[k].missing # "none"
    \/ \E j \in 1..(k - 1) :
          sections[j].name \in ConstructedNames /\ sections[j].uri = sections[k].uri

\* C21 as stated: a manager section with a configuration error makes the build
\* fail; the section is never dropped while the build goes on.
C21_ConfigErrorFatal ==
    \A n \in DOMAIN dropped :
        dropped[n] \in {"EnvironmentError", "NoOptionError"} => bpc = "failed"

\* C21 amended: a manager section with a configuration error is dropped, the
\* build goes on to its end, and a later section without a configuration error
\* is constructed.
C21_ConfigErrorDropped ==
    /\ bpc # "failed"
    /\ bpc = "built" =>
          \A k \in DOMAIN sections :
              /\ ConfigError(k) =>
                    /\ sections[k].name \notin ConstructedNames
                    /\ sections[k].name \in DOMAIN dropped
                    /\ sections[k].name \notin groups
              /\ (~ConfigError(k) /\ sections[k].managed) =>
                    sections[k].name \in ConstructedNames

C21_Witness ==
    /\ bpc = "built"
    /\ ConfigError(1) /\ sections[1].managed /\ sections[1].missing = "none"
    /\ dropped[sections[1].name] = "EnvironmentError"
    /\ sections[2].name \in ConstructedNames

\* C22: after build_arr_instances every constructed reconciler is registered,
\* and no two constructed reconcilers, regular or placeholder, have one category.
C22_CategoriesOwned ==
    bpc = "built" =>
        /\ \A i \in DOMAIN constructed :
              /\ constructed[i].category \in DOMAIN managed_objects
              /\ managed_objects[constructed[i].category] = constructed[i].name
        /\ \A i, j \in DOMAIN constructed :
              i # j => constructed[i].category # constructed[j].category

====
